---- MODULE Spec2Model ----
(***************************************************************************)
(* Model of the sudoku-server real-time session engine                     *)
(* (crates/sudoku-server/src/ws.rs, state.rs, lib.rs, routes.rs and        *)
(* crates/sudoku-core/src/elo.rs, board.rs).                               *)
(*                                                                         *)
(* Every tokio task is a process with a program counter: one per socket    *)
(* (handle_socket), one grace timer per closed socket and the sweeper.     *)
(* A step of a process is one block of code that runs under one DashMap    *)
(* entry lock, or between two .await points; the steps of different tasks  *)
(* interleave freely, as they do on the multi-threaded runtime.            *)
(***************************************************************************)
EXTENDS Integers, Sequences, FiniteSets, TLC

\* ------------------------------------------------------------------ bounds
\* The board is BoardSide x BoardSide instead of 9 x 9, values are
\* 1..MaxValue instead of 1..9, and the generated puzzle leaves NEmpty cells
\* open.
BoardSide == 2
MaxValue == 2
NEmpty == 2
\* At most MaxRooms rooms are created in one behaviour.
MaxRooms == 2
\* The clock advances at most MaxTicks times.
MaxTicks == 1

\* ------------------------------------------------------- program constants
DEFAULT_RATING == 1200
K == 32
GRACE_SECS == 30
QUEUE_WIDEN_SECS == 30
ELO_RANGE == 200
ELO_RANGE_WIDE == 400
WAITING_TTL == 600
IDLE_TTL == 300
ENDED_TTL == 120
RATE_LIMIT == 20
max_connections == 100
PROGRESS_SECS == 2

\* ------------------------------------------------------------ identifiers
Users == {1, 2, 3}
Socks == {1, 2, 3}
NoUser == 0
Codes == {"R1", "R2"}
NoCode == "none"
Modes == {"Race", "Shared"}
Difficulties == {"Easy"}

\* Process ids: socket s is process s, the grace timer spawned by socket s
\* is process GraceOf(s), the sweeper is process Sweeper.  The progress
\* broadcasters are the processes of Broadcasters (at most one is spawned
\* per room); they have a place in pc and loc in the specifications that
\* schedule them (InitProgress).
GraceOf(s) == 10 + s
Graces == {GraceOf(s) : s \in Socks}
Sweeper == 20
Broadcasters == {30 + r : r \in 1 .. MaxRooms}
Procs == Socks \cup Graces \cup {Sweeper}

VARIABLES
    rooms,            \* AppState.rooms: code -> Room
    connections,      \* AppState.connections: user id -> ConnectionHandle
    matchmaking,      \* AppState.matchmaking: queue key -> Vec<QueueEntry>
    connection_count, \* AppState.connection_count
    users_db,         \* the users table: user id -> [rating, wins, losses]
    now,              \* Instant::now(), in seconds
    sock,             \* per socket: the arguments of handle_socket
    pc,               \* per process: position in its code
    loc,              \* per process: its local variables
    sent,             \* the messages the last step put on channels
    hist              \* history (ghost) variables used by the properties

vars == <<rooms, connections, matchmaking, connection_count, users_db, now,
          sock, pc, loc, sent, hist>>

\* ------------------------------------------------------------------ boards
Cells == (0 .. BoardSide - 1) \X (0 .. BoardSide - 1)

Given(v) == <<"Given", v>>
UserInput(v) == <<"UserInput", v>>
Empty == <<"Empty", 0>>

\* Cell::value, as Option: 0 is None
value(cell) == IF cell[1] = "Empty" THEN 0 ELSE cell[2]

is_given_Never(cell) == FALSE

is_given(cell) == cell[1] = "Given"

\* generate_puzzle: the solution and the board of givens.  The open cells
\* are the first NEmpty cells in row-major order.
solution_of == [rc \in Cells |-> ((rc[1] + rc[2]) % MaxValue) + 1]
IsOpen(rc) == rc[1] * BoardSide + rc[2] < NEmpty
generate_puzzle ==
    [board |-> [rc \in Cells |-> IF IsOpen(rc) THEN Empty
                                 ELSE Given(solution_of[rc])],
     solution |-> solution_of]

all_filled(board) == \A rc \in Cells : value(board[rc]) # 0

filled_count(board) ==
    Cardinality({rc \in Cells : board[rc][1] = "UserInput"})

correct_count(board, solution) ==
    Cardinality({rc \in Cells : board[rc][1] = "UserInput"
                                /\ board[rc][2] = solution[rc]})

count_correct_for_player_Owned(ownership, board, solution, player_id) ==
    Cardinality({rc \in DOMAIN ownership : ownership[rc] = player_id})

count_correct_for_player(ownership, board, solution, player_id) ==
    Cardinality({rc \in DOMAIN ownership :
                    /\ ownership[rc] = player_id
                    /\ value(board[rc]) # 0
                    /\ value(board[rc]) = solution[rc]})

board_to_wire(board) ==
    [rc \in Cells |-> IF board[rc][1] = "Given" THEN board[rc][2] ELSE 0]

\* --------------------------------------------------------------------- elo
\* calculate_elo rounds player + 32 * (score - expected), expected =
\* 1 / (1 + 10^((opponent - player) / 400)).  The rounded gain of a win
\* depends only on d = opponent - player and grows by one at each of the
\* differences below (tabulated from the formula with f64 arithmetic); the
\* loss is the gain minus K.
EloSteps == {-719, -523, -428, -364, -314, -273, -237, -205, -176, -149,
             -124, -100, -77, -54, -32, -10, 11, 33, 55, 78, 101, 125, 150,
             177, 206, 238, 274, 315, 365, 429, 524, 720}

calculate_elo_LossAsDraw(player_rating, opponent_rating, won) ==
    LET gain == Cardinality({t \in EloSteps :
                                t <= opponent_rating - player_rating})
    IN  player_rating + gain - (IF won THEN 0 ELSE K \div 2)

calculate_elo(player_rating, opponent_rating, won) ==
    LET gain == Cardinality({t \in EloSteps :
                                t <= opponent_rating - player_rating})
    IN  player_rating + gain - (IF won THEN 0 ELSE K)

elo_change(player_rating, opponent_rating, won) ==
    calculate_elo(player_rating, opponent_rating, won) - player_rating

\* ---------------------------------------------------------------- messages
MsgError(m) == [type |-> "Error", message |-> m]
RoomCreated(code) == [type |-> "RoomCreated", code |-> code]
WaitingForOpponent == [type |-> "WaitingForOpponent"]
MatchStarted(mode, difficulty, board, opp, opp_rating) ==
    [type |-> "MatchStarted", mode |-> mode, difficulty |-> difficulty,
     board |-> board,
     opponent_name |-> opp, opponent_rating |-> opp_rating]
MoveAccepted(row, col, v) ==
    [type |-> "MoveAccepted", row |-> row, col |-> col, value |-> v]
MoveRejected(row, col, reason) ==
    [type |-> "MoveRejected", row |-> row, col |-> col, reason |-> reason]
OpponentPlaced(row, col, v) ==
    [type |-> "OpponentPlaced", row |-> row, col |-> col, value |-> v]
OpponentErased(row, col) ==
    [type |-> "OpponentErased", row |-> row, col |-> col]
GameEnd(won, your_score, opponent_score, change, new_rating) ==
    [type |-> "GameEnd", won |-> won, your_score |-> your_score,
     opponent_score |-> opponent_score, elo_change |-> change,
     new_rating |-> new_rating]
OpponentDisconnected == [type |-> "OpponentDisconnected"]
OpponentProgress(n) == [type |-> "OpponentProgress", filled_count |-> n]

\* tx.send on the channel of socket s
tx_send(s, msg) == <<[to |-> s, user |-> sock[s].user, msg |-> msg]>>

\* send_to: a no-op when the user has no ConnectionHandle
send_to(conns, user_id, msg) ==
    IF user_id \in DOMAIN conns
    THEN <<[to |-> conns[user_id].sock, user |-> user_id, msg |-> msg]>>
    ELSE <<>>

\* get_opponent
get_opponent(room_code, user_id) ==
    IF room_code \in DOMAIN rooms
    THEN IF rooms[room_code].player1_id = user_id
         THEN rooms[room_code].player2_id
         ELSE rooms[room_code].player1_id
    ELSE NoUser

\* ------------------------------------------------------------------- state
NoLoc ==
    [code |-> NoCode, mode |-> "Race", difficulty |-> "Easy",
     wire |-> <<>>, row |-> 0, col |-> 0, value |-> 0,
     complete |-> FALSE, opp |-> NoUser, opp_rating |-> 0,
     my_score |-> 0, opp_score |-> 0,
     p1 |-> NoUser, p2 |-> NoUser,
     winner |-> NoUser, loser |-> NoUser, wscore |-> 0, lscore |-> 0,
     wr |-> 0, lr |-> 0, rid |-> 0, kind |-> "none",
     new_code |-> NoCode, due |-> 0,
     to_remove |-> <<>>, to_forfeit |-> <<>>]

HistInit ==
    [rid |-> 0,                                \* rooms created so far
     update_ratings |-> [r \in 1 .. MaxRooms |-> 0],
     record_match |-> [r \in 1 .. MaxRooms |-> 0],
     game_end |-> [r \in 1 .. MaxRooms |-> [u \in Users |-> 0]],
     registered |-> [u \in Users |-> 0]]       \* register calls per user

InitRating == [u \in Users |-> CASE u = 1 -> 1000 [] u = 2 -> 1300
                                 [] OTHER -> 1200]

Init ==
    /\ rooms = <<>>
    /\ connections = <<>>
    /\ matchmaking = [k \in Modes \X Difficulties |-> <<>>]
    /\ connection_count = 0
    /\ users_db = [u \in Users |->
                      [rating |-> InitRating[u], wins |-> 0, losses |-> 0]]
    /\ now = 0
    /\ sock = [s \in Socks |-> [user |-> NoUser, rating |-> 0]]
    /\ pc = [p \in Procs |-> IF p = Sweeper THEN "sleep" ELSE "none"]
    /\ loc = [p \in Procs |-> NoLoc]
    /\ sent = <<>>
    /\ hist = HistInit

\* function update that also extends the domain (HashMap::insert)
Put(f, k, v) == [x \in DOMAIN f \cup {k} |-> IF x = k THEN v ELSE f[x]]
\* HashMap::remove
Del(f, k) == [x \in DOMAIN f \ {k} |-> f[x]]

Goto(p, l) == pc' = [pc EXCEPT ![p] = l]

\* queue_key
queue_key(mode, difficulty) == <<mode, difficulty>>

\* where a process continues after forfeit_player or end_game returns
RetPc(p) == IF p \in Socks THEN "loop"
            ELSE IF p \in Graces THEN "done" ELSE "sw_forfeit"

Return(p) ==
    /\ pc' = [pc EXCEPT ![p] = RetPc(p)]
    /\ loc' = [loc EXCEPT ![p] = IF p = Sweeper
                                 THEN [NoLoc EXCEPT !.to_forfeit =
                                                        loc[p].to_forfeit]
                                 ELSE NoLoc]

\* if mode == GameMode::Race { spawn_progress_broadcaster(..) } as the last
\* statement of a handler: the new task starts in the lowest free process
\* slot with its captured room_code, p1 and p2, and the handler returns.
\* Where the broadcasters are not scheduled the task never runs, which no
\* other task can tell from its absence, and the spawn leaves no trace.
spawn_progress_broadcaster(s, mode, room_code, p1, p2) ==
    IF mode = "Race" /\ Broadcasters \subseteq DOMAIN pc
    THEN LET free == {b \in Broadcasters : pc[b] = "none"}
             b == CHOOSE x \in free : \A y \in free : x <= y
         IN  /\ pc' = [pc EXCEPT ![s] = RetPc(s), ![b] = "bc_tick"]
             /\ loc' = [loc EXCEPT ![s] = NoLoc,
                                   ![b] = [NoLoc EXCEPT
                                       !.code = room_code,
                                       !.p1 = p1, !.p2 = p2,
                                       \* history: the room it is spawned for
                                       !.rid = IF room_code \in DOMAIN rooms
                                               THEN rooms[room_code].rid
                                               ELSE 0,
                                       \* the interval's first tick is
                                       \* immediate
                                       !.due = now]]
    ELSE Return(s)

\* Room { .. } as built by CreateRoom, QuickMatch and Rematch
NewRoom(rid, code, mode, difficulty, state, p1, p2) ==
    LET puzzle == generate_puzzle IN
    [rid |-> rid, code |-> code, mode |-> mode, difficulty |-> difficulty,
     state |-> state, player1_id |-> p1, player2_id |-> p2,
     board |-> puzzle.board, solution |-> puzzle.solution,
     player_boards |-> [u \in {p1, p2} \ {NoUser} |-> puzzle.board],
     cell_ownership |-> <<>>,
     shared_board |-> puzzle.board,
     created_at |-> now, last_activity |-> now,
     started_at |-> IF state = "Playing" THEN now ELSE -1]

\* ----------------------------------------------------------- handle_socket
\* ws_upgrade: the capacity check and the rating read from the users table
Upgrade(s, u) ==
    /\ pc[s] = "none"
    /\ IF connection_count >= max_connections
       THEN /\ Goto(s, "rejected")
            /\ UNCHANGED sock
       ELSE /\ Goto(s, "upgraded")
            /\ sock' = [sock EXCEPT ![s] =
                           [user |-> u, rating |-> users_db[u].rating]]
    /\ sent' = <<>>
    /\ UNCHANGED <<rooms, connections, matchmaking, connection_count,
                   users_db, now, loc, hist>>

\* handle_socket, lines 27-43: count the connection, insert the handle
Register(s) ==
    /\ pc[s] = "upgraded"
    /\ connection_count' = connection_count + 1
    /\ connections' = Put(connections, sock[s].user,
           [sock |-> s, rating |-> sock[s].rating, room_code |-> NoCode,
            message_count |-> 0])
    /\ hist' = [hist EXCEPT !.registered[sock[s].user] = @ + 1]
    /\ Goto(s, "loop")
    /\ sent' = <<>>
    /\ UNCHANGED <<rooms, matchmaking, users_db, now, sock, loc>>

\* An inbound text frame, lines 58-77: the rate limiter.  Whether more
\* than one second has passed since rate_limit_window is the input elapsed
\* (the model's clock counts whole seconds, the window is compared at full
\* resolution); the handle keeps message_count.
rate_limit(conns, u, elapsed) ==
    [conns EXCEPT ![u].message_count = (IF elapsed THEN 0 ELSE @) + 1]

\* lines 61-64: the frame finds no handle under the user id and the loop
\* breaks
RecvNoHandle(s) ==
    /\ pc[s] = "loop"
    /\ sock[s].user \notin DOMAIN connections
    /\ Goto(s, "d_room")
    /\ sent' = <<>>
    /\ UNCHANGED <<rooms, connections, matchmaking, connection_count,
                   users_db, now, sock, loc, hist>>

\* lines 70-76: the frame is over the limit and is answered with an Error
RateLimited(s) ==
    /\ pc[s] = "loop"
    /\ sock[s].user \in DOMAIN connections
    /\ LET conns == rate_limit(connections, sock[s].user, FALSE) IN
       /\ conns[sock[s].user].message_count > RATE_LIMIT
       /\ conns[sock[s].user].message_count <= RATE_LIMIT + 1
       /\ connections' = conns
       /\ sent' = send_to(conns, sock[s].user, MsgError("Rate limited"))
    /\ UNCHANGED <<rooms, matchmaking, connection_count, users_db, now,
                   sock, pc, loc, hist>>

\* A frame that passes the limiter and is dispatched: the handle exists and
\* the frame arrives more than a second after the window started.
Admitted(s) ==
    /\ pc[s] = "loop"
    /\ sock[s].user \in DOMAIN connections

Counted(s) == rate_limit(connections, sock[s].user, TRUE)

\* ------------------------------------------------------------- CreateRoom
\* lines 157-181: generate the puzzle and the code, insert the room
CreateRoom(s, mode, difficulty, code) ==
    /\ Admitted(s)
    /\ connections' = Counted(s)
    /\ hist.rid < MaxRooms
    /\ rooms' = Put(rooms, code,
                    NewRoom(hist.rid + 1, code, mode, difficulty, "Waiting",
                            sock[s].user, NoUser))
    /\ hist' = [hist EXCEPT !.rid = @ + 1]
    /\ loc' = [loc EXCEPT ![s].code = code]
    /\ Goto(s, "cr_assoc")
    /\ sent' = <<>>
    /\ UNCHANGED <<matchmaking, connection_count, users_db,
                   now, sock>>

\* lines 183-189: associate the connection, reply
CreateRoomAssoc(s) ==
    /\ pc[s] = "cr_assoc"
    /\ LET u == sock[s].user IN
       connections' = IF u \in DOMAIN connections
                      THEN [connections EXCEPT ![u].room_code = loc[s].code]
                      ELSE connections
    /\ sent' = tx_send(s, RoomCreated(loc[s].code))
               \o tx_send(s, WaitingForOpponent)
    /\ Return(s)
    /\ UNCHANGED <<rooms, matchmaking, connection_count, users_db, now,
                   sock, hist>>

\* --------------------------------------------------------------- JoinRoom
\* line 205: only a Waiting room accepts a second player
accepting_Any(room) == TRUE

accepting(room) == room.state = "Waiting"

\* line 212: the creator cannot join the own room
is_own_Never(room, user_id) == FALSE

is_own(room, user_id) == room.player1_id = user_id

\* lines 193-237: the block that holds the room entry
JoinRoom(s, code) ==
    /\ Admitted(s)
    /\ LET u == sock[s].user IN
       IF code \notin DOMAIN rooms
       THEN /\ sent' = tx_send(s, MsgError("Room not found"))
            /\ Return(s)
            /\ connections' = Counted(s)
            /\ UNCHANGED rooms
       ELSE LET room == rooms[code] IN
            IF ~ accepting(room)
            THEN /\ sent' = tx_send(s,
                               MsgError("Room is not accepting players"))
                 /\ Return(s)
                 /\ connections' = Counted(s)
                 /\ UNCHANGED rooms
            ELSE IF is_own(room, u)
            THEN /\ sent' = tx_send(s, MsgError("Cannot join your own room"))
                 /\ Return(s)
                 /\ connections' = Counted(s)
                 /\ UNCHANGED rooms
            ELSE /\ rooms' = [rooms EXCEPT ![code] =
                        [room EXCEPT !.player2_id = u,
                                     !.state = "Playing",
                                     !.started_at = now,
                                     !.last_activity = now,
                                     !.player_boards =
                                         Put(@, u, room.board)]]
                 /\ connections' = [Counted(s) EXCEPT ![u].room_code = code]
                 /\ loc' = [loc EXCEPT ![s].code = code,
                                       ![s].mode = room.mode,
                                       ![s].difficulty = room.difficulty,
                                       ![s].wire = board_to_wire(room.board),
                                       ![s].p1 = room.player1_id]
                 /\ Goto(s, "j_start")
                 /\ sent' = <<>>
    /\ UNCHANGED <<matchmaking, connection_count, users_db, now, sock, hist>>

\* lines 239-277: MatchStarted to the joiner, then to the creator, and the
\* progress broadcaster of a Race room
JoinRoomStart_CreatorFirst(s) ==
    /\ pc[s] = "j_start"
    /\ LET p1_id == loc[s].p1
           p1_name == IF p1_id \in DOMAIN connections THEN p1_id ELSE NoUser
           p1_rating == IF p1_id \in DOMAIN connections
                        THEN connections[p1_id].rating ELSE DEFAULT_RATING
       IN  sent' = send_to(connections, p1_id,
                           MatchStarted(loc[s].mode, loc[s].difficulty,
                                        loc[s].wire, sock[s].user,
                                        sock[s].rating))
                   \o tx_send(s, MatchStarted(loc[s].mode, loc[s].difficulty,
                                              loc[s].wire, p1_name,
                                              p1_rating))
    /\ spawn_progress_broadcaster(s, loc[s].mode, loc[s].code,
                                  sock[s].user, loc[s].p1)
    /\ UNCHANGED <<rooms, connections, matchmaking, connection_count,
                   users_db, now, sock, hist>>

JoinRoomStart(s) ==
    /\ pc[s] = "j_start"
    /\ LET p1_id == loc[s].p1
           p1_name == IF p1_id \in DOMAIN connections THEN p1_id ELSE NoUser
           p1_rating == IF p1_id \in DOMAIN connections
                        THEN connections[p1_id].rating ELSE DEFAULT_RATING
           wire == loc[s].wire
       IN  sent' = tx_send(s, MatchStarted(loc[s].mode, loc[s].difficulty,
                                           wire, p1_name, p1_rating))
                   \o send_to(connections, p1_id,
                              MatchStarted(loc[s].mode, loc[s].difficulty,
                                           wire, sock[s].user,
                                           sock[s].rating))
    /\ spawn_progress_broadcaster(s, loc[s].mode, loc[s].code,
                                  sock[s].user, loc[s].p1)
    /\ UNCHANGED <<rooms, connections, matchmaking, connection_count,
                   users_db, now, sock, hist>>

\* ------------------------------------------------------------ PlaceNumber
\* lines 385-403: the room lookup on the connection and the range check
PlaceNumber(s, row, col, v) ==
    /\ Admitted(s)
    /\ connections' = Counted(s)
    /\ LET u == sock[s].user IN
       IF u \notin DOMAIN connections \/ connections[u].room_code = NoCode
       THEN /\ sent' = tx_send(s, MsgError("Not in a room"))
            /\ Return(s)
       ELSE IF row >= BoardSide \/ col >= BoardSide \/ v < 1 \/ v > MaxValue
       THEN /\ sent' = tx_send(s, MoveRejected(row, col,
                                               "Invalid position or value"))
            /\ Return(s)
       ELSE /\ sent' = <<>>
            /\ loc' = [loc EXCEPT ![s].code = connections[u].room_code,
                                  ![s].row = row, ![s].col = col,
                                  ![s].value = v]
            /\ Goto(s, "p_room")
    /\ UNCHANGED <<rooms, matchmaking, connection_count,
                   users_db, now, sock, hist>>

\* lines 410 and 631: PlaceNumber and EraseNumber act on a Playing room only
playing_OrEnded(room) == room.state \in {"Playing", "Ended"}

playing(room) == room.state = "Playing"

\* the opponent of user_id as the handlers compute it from a room
OpponentIn(room, user_id) ==
    IF room.player1_id = user_id THEN room.player2_id ELSE room.player1_id

\* lines 432-485: GameMode::Race
PlaceRace_EveryOverlay(room, user_id, rc, v) ==
    LET boards == [w \in DOMAIN room.player_boards |->
                       [room.player_boards[w] EXCEPT ![rc] = UserInput(v)]]
    IN  [room EXCEPT !.player_boards = boards,
                     !.state = IF all_filled(boards[user_id])
                               THEN "Ended" ELSE @]

PlaceRace(room, user_id, rc, v) ==
    LET boards == IF user_id \in DOMAIN room.player_boards
                  THEN room.player_boards
                  ELSE Put(room.player_boards, user_id, room.board)
        player_board == [boards[user_id] EXCEPT ![rc] = UserInput(v)]
        filled == all_filled(player_board)
    IN  [room EXCEPT !.player_boards = Put(boards, user_id, player_board),
                     !.state = IF filled THEN "Ended" ELSE @]

\* lines 486-543: GameMode::Shared, on an unclaimed cell
PlaceShared(room, user_id, rc, v) ==
    LET board == [room.shared_board EXCEPT ![rc] = UserInput(v)]
    IN  [room EXCEPT !.shared_board = board,
                     !.cell_ownership = Put(@, rc, user_id),
                     !.state = IF all_filled(board) THEN "Ended" ELSE @]

\* the Race scores of PlaceResult::Race, read after the placement
RaceScore(room, user_id) ==
    IF user_id # NoUser /\ user_id \in DOMAIN room.player_boards
    THEN correct_count(room.player_boards[user_id], room.solution)
    ELSE 0

\* the Shared scores of PlaceResult::Shared
SharedScore(room, user_id) ==
    IF user_id = NoUser THEN 0
    ELSE count_correct_for_player(room.cell_ownership, room.shared_board,
                                  room.solution, user_id)

\* line 488: first write wins
claimed_NoCheck(room, rc) == FALSE

claimed(room, rc) == rc \in DOMAIN room.cell_ownership

\* lines 405-545: the block that holds the room entry
PlaceNumberRoom(s) ==
    /\ pc[s] = "p_room"
    /\ LET u == sock[s].user
           code == loc[s].code
           rc == <<loc[s].row, loc[s].col>>
       IN
       IF code \notin DOMAIN rooms
       THEN /\ sent' = <<>>
            /\ Return(s)
            /\ UNCHANGED rooms
       ELSE LET room == rooms[code]
                active == [room EXCEPT !.last_activity = now]
            IN
            IF ~ playing(room)
            THEN /\ sent' = tx_send(s, MsgError("Game is not in progress"))
                 /\ Return(s)
                 /\ UNCHANGED rooms
            ELSE IF is_given(room.board[rc])
            THEN /\ sent' = tx_send(s, MoveRejected(loc[s].row, loc[s].col,
                                        "Cannot modify a given cell"))
                 /\ Return(s)
                 /\ rooms' = [rooms EXCEPT ![code] = active]
            ELSE IF room.mode = "Shared" /\ claimed(room, rc)
            THEN /\ sent' = tx_send(s, MoveRejected(loc[s].row, loc[s].col,
                                        "Cell already claimed"))
                 /\ Return(s)
                 /\ rooms' = [rooms EXCEPT ![code] = active]
            ELSE LET placed == IF room.mode = "Race"
                               THEN PlaceRace(active, u, rc, loc[s].value)
                               ELSE PlaceShared(active, u, rc, loc[s].value)
                     opp == OpponentIn(room, u)
                 IN  /\ rooms' = [rooms EXCEPT ![code] = placed]
                     /\ loc' = [loc EXCEPT
                            ![s].mode = room.mode,
                            ![s].rid = room.rid,
                            ![s].complete = (placed.state = "Ended"),
                            ![s].opp = opp,
                            ![s].p1 = room.player1_id,
                            ![s].p2 = room.player2_id,
                            ![s].my_score =
                                IF room.mode = "Race"
                                THEN RaceScore(placed, u)
                                ELSE SharedScore(placed, u),
                            ![s].opp_score =
                                IF room.mode = "Race"
                                THEN RaceScore(placed, opp)
                                ELSE SharedScore(placed, opp)]
                     /\ Goto(s, "p_reply")
                     /\ sent' = <<>>
    /\ UNCHANGED <<connections, matchmaking, connection_count, users_db,
                   now, sock, hist>>

\* lines 563-570 and 593-603: winner = higher score, a tie goes to the
\* finisher
Decide_TieToOpponent(user_id, opp_id, my_score, opp_score) ==
    IF my_score > opp_score
    THEN [winner |-> user_id, loser |-> opp_id,
          wscore |-> my_score, lscore |-> opp_score]
    ELSE [winner |-> opp_id, loser |-> user_id,
          wscore |-> opp_score, lscore |-> my_score]

Decide(user_id, opp_id, my_score, opp_score) ==
    IF my_score >= opp_score
    THEN [winner |-> user_id, loser |-> opp_id,
          wscore |-> my_score, lscore |-> opp_score]
    ELSE [winner |-> opp_id, loser |-> user_id,
          wscore |-> opp_score, lscore |-> my_score]

\* lines 547-611: MoveAccepted, the Shared broadcast and the call of
\* end_game (which returns at once when the room has no second player)
PlaceNumberReply(s) ==
    /\ pc[s] = "p_reply"
    /\ LET u == sock[s].user
           l == loc[s]
           opp_id == IF l.opp = NoUser THEN u ELSE l.opp
           d == Decide(u, opp_id, l.my_score, l.opp_score)
       IN  /\ sent' = tx_send(s, MoveAccepted(l.row, l.col, l.value))
                      \o (IF l.mode = "Shared" /\ l.opp # NoUser
                          THEN send_to(connections, l.opp,
                                     OpponentPlaced(l.row, l.col, l.value))
                          ELSE <<>>)
           /\ IF l.complete /\ l.p2 # NoUser
              THEN /\ loc' = [loc EXCEPT ![s].winner = d.winner,
                                         ![s].loser = d.loser,
                                         ![s].wscore = d.wscore,
                                         ![s].lscore = d.lscore,
                                         ![s].kind = "end"]
                   /\ Goto(s, "c_read")
              ELSE Return(s)
    /\ UNCHANGED <<rooms, connections, matchmaking, connection_count,
                   users_db, now, sock, hist>>

\* ------------------------------------------------------------ EraseNumber
\* lines 615-623
EraseNumber(s, row, col) ==
    /\ Admitted(s)
    /\ connections' = Counted(s)
    /\ LET u == sock[s].user IN
       IF \/ u \notin DOMAIN connections
          \/ connections[u].room_code = NoCode
          \/ row >= BoardSide \/ col >= BoardSide
       THEN Return(s)
       ELSE /\ loc' = [loc EXCEPT ![s].code = connections[u].room_code,
                                  ![s].row = row, ![s].col = col]
            /\ Goto(s, "e_room")
    /\ sent' = <<>>
    /\ UNCHANGED <<rooms, matchmaking, connection_count,
                   users_db, now, sock, hist>>

\* line 649: only the owner of a shared cell can erase it
owns_Anyone(room, rc, user_id) == rc \in DOMAIN room.cell_ownership

owns(room, rc, user_id) ==
    rc \in DOMAIN room.cell_ownership /\ room.cell_ownership[rc] = user_id

\* lines 625-663: the block that holds the room entry
EraseNumberRoom(s) ==
    /\ pc[s] = "e_room"
    /\ LET u == sock[s].user
           code == loc[s].code
           rc == <<loc[s].row, loc[s].col>>
       IN
       IF code \notin DOMAIN rooms \/ ~ playing(rooms[code])
       THEN /\ Return(s)
            /\ UNCHANGED rooms
       ELSE LET room == rooms[code]
                active == [room EXCEPT !.last_activity = now]
            IN
            IF is_given(room.board[rc])
            THEN /\ Return(s)
                 /\ rooms' = [rooms EXCEPT ![code] = active]
            ELSE IF room.mode = "Race"
            THEN /\ Return(s)
                 /\ rooms' = [rooms EXCEPT ![code] =
                        IF u \in DOMAIN room.player_boards
                        THEN [active EXCEPT !.player_boards[u][rc] = Empty]
                        ELSE active]
            ELSE IF ~ owns(room, rc, u)
            THEN /\ Return(s)
                 /\ rooms' = [rooms EXCEPT ![code] = active]
            ELSE /\ rooms' = [rooms EXCEPT ![code] =
                        [active EXCEPT !.shared_board[rc] = Empty,
                                       !.cell_ownership = Del(@, rc)]]
                 /\ IF OpponentIn(room, u) = NoUser
                    THEN Return(s)
                    ELSE /\ loc' = [loc EXCEPT ![s].opp = OpponentIn(room, u)]
                         /\ Goto(s, "e_notify")
    /\ sent' = <<>>
    /\ UNCHANGED <<connections, matchmaking, connection_count, users_db,
                   now, sock, hist>>

\* lines 665-667
EraseNumberNotify(s) ==
    /\ pc[s] = "e_notify"
    /\ sent' = send_to(connections, loc[s].opp,
                       OpponentErased(loc[s].row, loc[s].col))
    /\ Return(s)
    /\ UNCHANGED <<rooms, connections, matchmaking, connection_count,
                   users_db, now, sock, hist>>

\* ---------------------------------------------------------------- Forfeit
\* lines 682-689
Forfeit(s) ==
    /\ Admitted(s)
    /\ connections' = Counted(s)
    /\ LET u == sock[s].user IN
       IF u \notin DOMAIN connections \/ connections[u].room_code = NoCode
       THEN Return(s)
       ELSE /\ loc' = [loc EXCEPT ![s].code = connections[u].room_code,
                                  ![s].loser = u]
            /\ Goto(s, "f_room")
    /\ sent' = <<>>
    /\ UNCHANGED <<rooms, matchmaking, connection_count,
                   users_db, now, sock, hist>>

\* line 870: only a Playing room can be forfeited
in_progress_Always(room) == TRUE

in_progress(room) == room.state = "Playing"

\* forfeit_player, lines 864-905: the block that holds the room entry.
\* p is the task that runs it: a socket, a grace timer or the sweeper.
forfeit_player(p) ==
    /\ pc[p] = "f_room"
    /\ LET code == loc[p].code
           forfeiter_id == loc[p].loser
       IN
       IF code \notin DOMAIN rooms \/ ~ in_progress(rooms[code])
       THEN /\ Return(p)
            /\ UNCHANGED rooms
       ELSE LET room == rooms[code]
                winner_id == OpponentIn(room, forfeiter_id)
            IN  /\ rooms' = [rooms EXCEPT ![code].state = "Ended"]
                /\ IF winner_id = NoUser \/ room.player2_id = NoUser
                   THEN Return(p)
                   ELSE /\ loc' = [loc EXCEPT
                               ![p].winner = winner_id,
                               ![p].p1 = room.player1_id,
                               ![p].p2 = room.player2_id,
                               ![p].mode = room.mode,
                               ![p].difficulty = room.difficulty,
                               ![p].rid = room.rid,
                               ![p].wscore = 0, ![p].lscore = 0,
                               ![p].kind = "forfeit"]
                        /\ Goto(p, "c_read")
    /\ sent' = <<>>
    /\ UNCHANGED <<connections, matchmaking, connection_count, users_db,
                   now, sock, hist>>

\* --------------------------------------- the tail of forfeit_player and
\* end_game: ratings, update_ratings, record_match, GameEnd
RatingOf(conns, user_id) ==
    IF user_id \in DOMAIN conns THEN conns[user_id].rating
    ELSE DEFAULT_RATING

\* lines 907-917 and 1003-1012: read both ratings from the registry
ReadRatings(p) ==
    /\ pc[p] = "c_read"
    /\ loc' = [loc EXCEPT ![p].wr = RatingOf(connections, loc[p].winner),
                          ![p].lr = RatingOf(connections, loc[p].loser)]
    /\ Goto(p, "c_update")
    /\ sent' = <<>>
    /\ UNCHANGED <<rooms, connections, matchmaking, connection_count,
                   users_db, now, sock, hist>>

\* db::update_ratings
update_ratings_WinnerOnly(db, winner_id, loser_id, winner_new, loser_new) ==
    [db EXCEPT ![winner_id].rating = winner_new,
               ![winner_id].wins = @ + 1,
               ![loser_id].rating = loser_new]

update_ratings(db, winner_id, loser_id, winner_new, loser_new) ==
    LET won == [db EXCEPT ![winner_id].rating = winner_new,
                          ![winner_id].wins = @ + 1]
    IN  [won EXCEPT ![loser_id].rating = loser_new,
                    ![loser_id].losses = @ + 1]

\* lines 919-932 and 1014-1026
UpdateRatings(p) ==
    /\ pc[p] = "c_update"
    /\ LET l == loc[p] IN
       users_db' = update_ratings(users_db, l.winner, l.loser,
                                  calculate_elo(l.wr, l.lr, TRUE),
                                  calculate_elo(l.lr, l.wr, FALSE))
    /\ hist' = [hist EXCEPT !.update_ratings[loc[p].rid] = @ + 1]
    /\ Goto(p, "c_record")
    /\ sent' = <<>>
    /\ UNCHANGED <<rooms, connections, matchmaking, connection_count, now,
                   sock, loc>>

\* db::update_ratings returns Err after `done` of its two statements have
\* run (db.rs 182-192, no transaction); the caller drops the Result
UpdateRatingsFails_Aborts(p, done) ==
    /\ pc[p] = "c_update"
    /\ done \in {0, 1}
    /\ users_db' = users_db
    /\ hist' = [hist EXCEPT !.update_ratings[loc[p].rid] = @ + 1]
    /\ Return(p)
    /\ sent' = <<>>
    /\ UNCHANGED <<rooms, connections, matchmaking, connection_count, now,
                   sock>>

UpdateRatingsFails(p, done) ==
    /\ pc[p] = "c_update"
    /\ done \in {0, 1}
    /\ LET l == loc[p] IN
       users_db' = IF done = 0 THEN users_db
                   ELSE [users_db EXCEPT
                            ![l.winner].rating =
                                calculate_elo(l.wr, l.lr, TRUE),
                            ![l.winner].wins = @ + 1]
    /\ hist' = [hist EXCEPT !.update_ratings[loc[p].rid] = @ + 1]
    /\ Goto(p, "c_record")
    /\ sent' = <<>>
    /\ UNCHANGED <<rooms, connections, matchmaking, connection_count, now,
                   sock, loc>>

\* db::record_match returns Err; the caller drops the Result
RecordMatchFails(p) ==
    /\ pc[p] = "c_record"
    /\ Goto(p, "c_notify")
    /\ sent' = <<>>
    /\ UNCHANGED <<rooms, connections, matchmaking, connection_count,
                   users_db, now, sock, loc, hist>>

\* lines 934-950 and 1028-1050: end_game records the match only when the
\* room code is still in the map
RecordMatch(p) ==
    /\ pc[p] = "c_record"
    /\ hist' = IF loc[p].kind = "forfeit" \/ loc[p].code \in DOMAIN rooms
               THEN [hist EXCEPT !.record_match[loc[p].rid] = @ + 1]
               ELSE hist
    /\ Goto(p, "c_notify")
    /\ sent' = <<>>
    /\ UNCHANGED <<rooms, connections, matchmaking, connection_count,
                   users_db, now, sock, loc>>

\* lines 952-984 and 1052-1084: GameEnd to both, then the registry ratings
Notify(p) ==
    /\ pc[p] = "c_notify"
    /\ LET l == loc[p]
           nw == calculate_elo(l.wr, l.lr, TRUE)
           nl == calculate_elo(l.lr, l.wr, FALSE)
           to_winner == send_to(connections, l.winner,
                            GameEnd(TRUE, l.wscore, l.lscore, nw - l.wr, nw))
           to_loser == send_to(connections, l.loser,
                            GameEnd(FALSE, l.lscore, l.wscore, nl - l.lr, nl))
           rated == IF l.winner \in DOMAIN connections
                    THEN [connections EXCEPT ![l.winner].rating = nw]
                    ELSE connections
       IN  /\ sent' = to_winner \o to_loser
           /\ connections' = IF l.loser \in DOMAIN rated
                             THEN [rated EXCEPT ![l.loser].rating = nl]
                             ELSE rated
           /\ hist' = [hist EXCEPT !.game_end[l.rid] =
                          [u \in Users |->
                              @[u] + Len(SelectSeq(to_winner \o to_loser,
                                         LAMBDA m : m.user = u))]]
    /\ Return(p)
    /\ UNCHANGED <<rooms, matchmaking, connection_count, users_db, now, sock>>

\* ------------------------------------------------------------- QuickMatch
\* lines 294-296: the rating gap an entry accepts
elo_range_Narrow(entry) == ELO_RANGE \div 2

elo_range(entry) ==
    IF now - entry.joined_at > QUEUE_WIDEN_SECS THEN ELO_RANGE_WIDE
    ELSE ELO_RANGE

Abs(x) == IF x < 0 THEN -x ELSE x

\* lines 288-300: the scan stops at the caller's own entry or at the first
\* entry within range; 0 when it runs off the end of the queue
RECURSIVE scan_FromEnd(_, _, _, _)
scan_FromEnd(queue, i, user_id, rating) ==
    LET n == Len(queue) + 1 - i IN
    IF i > Len(queue) THEN 0
    ELSE IF queue[n].user_id = user_id THEN n
    ELSE IF Abs(rating - queue[n].rating) <= elo_range(queue[n]) THEN n
    ELSE scan_FromEnd(queue, i + 1, user_id, rating)

RECURSIVE scan_SkipsOwn(_, _, _, _)
scan_SkipsOwn(queue, i, user_id, rating) ==
    IF i > Len(queue) THEN 0
    ELSE IF queue[i].user_id = user_id
    THEN scan_SkipsOwn(queue, i + 1, user_id, rating)
    ELSE IF Abs(rating - queue[i].rating) <= elo_range(queue[i]) THEN i
    ELSE scan_SkipsOwn(queue, i + 1, user_id, rating)

RECURSIVE scan(_, _, _, _)
scan(queue, i, user_id, rating) ==
    IF i > Len(queue) THEN 0
    ELSE IF queue[i].user_id = user_id THEN i
    ELSE IF Abs(rating - queue[i].rating) <= elo_range(queue[i]) THEN i
    ELSE scan(queue, i + 1, user_id, rating)

RemoveAt(queue, i) ==
    [j \in 1 .. Len(queue) - 1 |-> IF j < i THEN queue[j] ELSE queue[j + 1]]

\* lines 281-313 and 379-381: the block that holds the bucket
QuickMatch(s, mode, difficulty) ==
    /\ Admitted(s)
    /\ connections' = Counted(s)
    /\ LET u == sock[s].user
           key == queue_key(mode, difficulty)
           queue == matchmaking[key]
           i == scan(queue, 1, u, sock[s].rating)
       IN
       IF i # 0 /\ queue[i].user_id = u
       THEN /\ sent' = <<>>
            /\ Return(s)
            /\ UNCHANGED matchmaking
       ELSE IF i # 0
       THEN /\ matchmaking' = [matchmaking EXCEPT ![key] = RemoveAt(queue, i)]
            /\ loc' = [loc EXCEPT ![s].mode = mode,
                                  ![s].difficulty = difficulty,
                                  ![s].opp = queue[i].user_id,
                                  ![s].opp_rating = queue[i].rating]
            /\ Goto(s, "q_insert")
            /\ sent' = <<>>
       ELSE /\ matchmaking' = [matchmaking EXCEPT ![key] =
                   Append(queue, [user_id |-> u, rating |-> sock[s].rating,
                                  joined_at |-> now])]
            /\ sent' = tx_send(s, WaitingForOpponent)
            /\ Return(s)
    /\ UNCHANGED <<rooms, connection_count, users_db, now,
                   sock, hist>>

\* lines 315-342: the room of the pair, directly in Playing
QuickMatchInsert(s, code) ==
    /\ pc[s] = "q_insert"
    /\ hist.rid < MaxRooms
    /\ rooms' = Put(rooms, code,
                    NewRoom(hist.rid + 1, code, loc[s].mode,
                            loc[s].difficulty, "Playing",
                            loc[s].opp, sock[s].user))
    /\ hist' = [hist EXCEPT !.rid = @ + 1]
    /\ loc' = [loc EXCEPT ![s].code = code,
                          ![s].wire = board_to_wire(generate_puzzle.board)]
    /\ Goto(s, "q_assoc")
    /\ sent' = <<>>
    /\ UNCHANGED <<connections, matchmaking, connection_count, users_db,
                   now, sock>>

\* room_code of both handles, lines 344-350, 748-754
Associate(conns, a, b, code) ==
    [u \in DOMAIN conns |->
        IF u \in {a, b} THEN [conns[u] EXCEPT !.room_code = code]
        ELSE conns[u]]

QuickMatchAssoc(s) ==
    /\ pc[s] = "q_assoc"
    /\ connections' = Associate(connections, sock[s].user, loc[s].opp,
                                loc[s].code)
    /\ Goto(s, "q_start")
    /\ sent' = <<>>
    /\ UNCHANGED <<rooms, matchmaking, connection_count, users_db, now,
                   sock, loc, hist>>

\* lines 352-378: MatchStarted to the queued player, then to the caller, and
\* the progress broadcaster of a Race room
QuickMatchStart(s) ==
    /\ pc[s] = "q_start"
    /\ LET l == loc[s] IN
       sent' = send_to(connections, l.opp,
                       MatchStarted(l.mode, l.difficulty, l.wire,
                                    sock[s].user, sock[s].rating))
               \o tx_send(s, MatchStarted(l.mode, l.difficulty, l.wire,
                                          l.opp, l.opp_rating))
    /\ spawn_progress_broadcaster(s, loc[s].mode, loc[s].code,
                                  sock[s].user, loc[s].opp)
    /\ UNCHANGED <<rooms, connections, matchmaking, connection_count,
                   users_db, now, sock, hist>>

\* ---------------------------------------------------------------- Rematch
\* lines 692-696
Rematch(s) ==
    /\ Admitted(s)
    /\ connections' = Counted(s)
    /\ LET u == sock[s].user IN
       IF u \notin DOMAIN connections \/ connections[u].room_code = NoCode
       THEN Return(s)
       ELSE /\ loc' = [loc EXCEPT ![s].code = connections[u].room_code]
            /\ Goto(s, "r_check")
    /\ sent' = <<>>
    /\ UNCHANGED <<rooms, matchmaking, connection_count,
                   users_db, now, sock, hist>>

\* lines 698-718: the read of the old room
RematchCheck(s) ==
    /\ pc[s] = "r_check"
    /\ LET code == loc[s].code IN
       IF \/ code \notin DOMAIN rooms
          \/ rooms[code].state # "Ended"
          \/ OpponentIn(rooms[code], sock[s].user) = NoUser
       THEN Return(s)
       ELSE /\ loc' = [loc EXCEPT
                   ![s].mode = rooms[code].mode,
                   ![s].difficulty = rooms[code].difficulty,
                   ![s].opp = OpponentIn(rooms[code], sock[s].user)]
            /\ Goto(s, "r_insert")
    /\ sent' = <<>>
    /\ UNCHANGED <<rooms, connections, matchmaking, connection_count,
                   users_db, now, sock, hist>>

\* lines 720-746: the new room, directly in Playing
RematchInsert(s, new_code) ==
    /\ pc[s] = "r_insert"
    /\ hist.rid < MaxRooms
    /\ rooms' = Put(rooms, new_code,
                    NewRoom(hist.rid + 1, new_code, loc[s].mode,
                            loc[s].difficulty, "Playing",
                            sock[s].user, loc[s].opp))
    /\ hist' = [hist EXCEPT !.rid = @ + 1]
    /\ loc' = [loc EXCEPT ![s].new_code = new_code,
                          ![s].wire = board_to_wire(generate_puzzle.board)]
    /\ Goto(s, "r_assoc")
    /\ sent' = <<>>
    /\ UNCHANGED <<connections, matchmaking, connection_count, users_db,
                   now, sock>>

\* lines 748-754
RematchAssoc(s) ==
    /\ pc[s] = "r_assoc"
    /\ connections' = Associate(connections, sock[s].user, loc[s].opp,
                                loc[s].new_code)
    /\ Goto(s, "r_start")
    /\ sent' = <<>>
    /\ UNCHANGED <<rooms, matchmaking, connection_count, users_db, now,
                   sock, loc, hist>>

\* lines 756-793: MatchStarted to the caller, then to the opponent, the
\* progress broadcaster of a Race room and the removal of the old room
RematchStart(s) ==
    /\ pc[s] = "r_start"
    /\ LET l == loc[s]
           opp_name == IF l.opp \in DOMAIN connections THEN l.opp ELSE NoUser
       IN  sent' = tx_send(s, MatchStarted(l.mode, l.difficulty, l.wire,
                                opp_name, RatingOf(connections, l.opp)))
                   \o send_to(connections, l.opp,
                              MatchStarted(l.mode, l.difficulty, l.wire,
                                           sock[s].user, sock[s].rating))
    /\ rooms' = Del(rooms, loc[s].code)
    /\ spawn_progress_broadcaster(s, loc[s].mode, loc[s].new_code,
                                  sock[s].user, loc[s].opp)
    /\ UNCHANGED <<connections, matchmaking, connection_count, users_db,
                   now, sock, hist>>

\* ------------------------------------------------- progress broadcaster
filled_of_Board(room, p) == filled_count(room.board)

\* room.player_boards.get(&p).map(|b| filled_count(b)).unwrap_or(0)
filled_of(room, p) ==
    IF p \in DOMAIN room.player_boards
    THEN filled_count(room.player_boards[p]) ELSE 0

\* lines 1088-1137: one turn of the broadcaster's loop, after
\* interval.tick().await.  The clock of the model is coarser than the
\* interval's period: a turn can come at any instant, and the next one is
\* due PROGRESS_SECS later at the latest.
progress_tick(b) ==
    /\ pc[b] = "bc_tick"
    /\ LET l == loc[b] IN
       IF l.code \notin DOMAIN rooms \/ rooms[l.code].state # "Playing"
       THEN /\ pc' = [pc EXCEPT ![b] = "none"]
            /\ loc' = [loc EXCEPT ![b] = NoLoc]
            /\ sent' = <<>>
       ELSE LET room == rooms[l.code]
                p1_filled == filled_of(room, l.p1)
                p2_filled == filled_of(room, l.p2)
            IN  /\ sent' = send_to(connections, l.p1,
                                   OpponentProgress(p2_filled))
                           \o send_to(connections, l.p2,
                                      OpponentProgress(p1_filled))
                /\ loc' = [loc EXCEPT ![b].due = now + PROGRESS_SECS]
                /\ UNCHANGED pc
    /\ UNCHANGED <<rooms, connections, matchmaking, connection_count,
                   users_db, now, sock, hist>>

\* a broadcaster whose tick fell due before the present instant and has not
\* run yet
Overdue(b) == pc[b] = "bc_tick" /\ loc[b].due < now

\* lines 58-80 and 796-798: a Ping frame that passes the limiter, arriving
\* more than a second after the window started (elapsed) or within it
Ping(s, elapsed) ==
    /\ pc[s] = "loop"
    /\ sock[s].user \in DOMAIN connections
    /\ LET conns == rate_limit(connections, sock[s].user, elapsed) IN
       /\ conns[sock[s].user].message_count <= RATE_LIMIT
       /\ connections' = conns
    /\ sent' = tx_send(s, [type |-> "Pong"])
    /\ Return(s)
    /\ UNCHANGED <<rooms, matchmaking, connection_count,
                   users_db, now, sock, hist>>

\* ------------------------------------------------- the disconnect path
\* lines 91-93: the socket is closed
Close(s) ==
    /\ pc[s] = "loop"
    /\ Goto(s, "d_room")
    /\ sent' = <<>>
    /\ UNCHANGED <<rooms, connections, matchmaking, connection_count,
                   users_db, now, sock, loc, hist>>

\* lines 101-122: the room of the handle registered under the user id,
\* OpponentDisconnected, and the spawn of the grace timer
Disconnected(s) ==
    /\ pc[s] = "d_room"
    /\ LET u == sock[s].user
           code == IF u \in DOMAIN connections
                   THEN connections[u].room_code ELSE NoCode
           g == GraceOf(s)
       IN
       IF code = NoCode
       THEN /\ Goto(s, "d_queue")
            /\ sent' = <<>>
            /\ UNCHANGED loc
       ELSE /\ sent' = IF get_opponent(code, u) # NoUser
                       THEN send_to(connections, get_opponent(code, u),
                                    OpponentDisconnected)
                       ELSE <<>>
            /\ pc' = [pc EXCEPT ![s] = "d_queue", ![g] = "sleep"]
            /\ loc' = [loc EXCEPT ![g].code = code, ![g].loser = u,
                                  ![g].due = now + GRACE_SECS]
    /\ UNCHANGED <<rooms, connections, matchmaking, connection_count,
                   users_db, now, sock, hist>>

\* lines 124-127: strip the user from every bucket
StripQueues(s) ==
    /\ pc[s] = "d_queue"
    /\ matchmaking' = [k \in DOMAIN matchmaking |->
           SelectSeq(matchmaking[k],
                     LAMBDA e : e.user_id # sock[s].user)]
    /\ Goto(s, "d_remove")
    /\ sent' = <<>>
    /\ UNCHANGED <<rooms, connections, connection_count, users_db, now,
                   sock, loc, hist>>

\* lines 129-130: remove the handle registered under the user id
Unregister(s) ==
    /\ pc[s] = "d_remove"
    /\ connections' = Del(connections, sock[s].user)
    /\ connection_count' = connection_count - 1
    /\ Goto(s, "closed")
    /\ sent' = <<>>
    /\ UNCHANGED <<rooms, matchmaking, users_db, now, sock, loc, hist>>

\* lines 115-121: the grace timer, once its sleep is over
GraceExpire(g) ==
    /\ pc[g] = "sleep"
    /\ now >= loc[g].due
    /\ IF loc[g].loser \in DOMAIN connections
       THEN Return(g)
       ELSE /\ Goto(g, "f_room")
            /\ UNCHANGED loc
    /\ sent' = <<>>
    /\ UNCHANGED <<rooms, connections, matchmaking, connection_count,
                   users_db, now, sock, hist>>

\* ------------------------------------------------------------ the sweeper
Older_Never(t, ttl) == FALSE

Older(t, ttl) == now - t > ttl

Orders(S) == {q \in [1 .. Cardinality(S) -> S] :
                 \A i, j \in 1 .. Cardinality(S) : i # j => q[i] # q[j]}

\* lib.rs line 81: an idle room is forfeited against its player1
idle_loser_Joiner(room) == room.player2_id

idle_loser(room) == room.player1_id

\* cleanup, lib.rs lines 66-90: the scan of the rooms
cleanup(order) ==
    /\ pc[Sweeper] = "sleep"
    /\ LET stale(c) == \/ /\ rooms[c].state = "Waiting"
                          /\ Older(rooms[c].created_at, WAITING_TTL)
                       \/ /\ rooms[c].state = "Ended"
                          /\ Older(rooms[c].last_activity, ENDED_TTL)
           idle(c) == /\ rooms[c].state = "Playing"
                      /\ Older(rooms[c].last_activity, IDLE_TTL)
           forfeits == SelectSeq(order, idle)
       IN  loc' = [loc EXCEPT
               ![Sweeper].to_remove = SelectSeq(order, stale),
               ![Sweeper].to_forfeit =
                   [i \in 1 .. Len(forfeits) |->
                       <<forfeits[i], idle_loser(rooms[forfeits[i]])>>]]
    /\ Goto(Sweeper, "sw_remove")
    /\ sent' = <<>>
    /\ UNCHANGED <<rooms, connections, matchmaking, connection_count,
                   users_db, now, sock, hist>>

\* lib.rs lines 92-94
cleanup_remove ==
    /\ pc[Sweeper] = "sw_remove"
    /\ LET l == loc[Sweeper] IN
       IF l.to_remove = <<>>
       THEN /\ Goto(Sweeper, "sw_forfeit")
            /\ UNCHANGED <<rooms, loc>>
       ELSE /\ rooms' = Del(rooms, Head(l.to_remove))
            /\ loc' = [loc EXCEPT ![Sweeper].to_remove = Tail(@)]
            /\ UNCHANGED pc
    /\ sent' = <<>>
    /\ UNCHANGED <<connections, matchmaking, connection_count, users_db,
                   now, sock, hist>>

\* lib.rs lines 96-98
cleanup_forfeit ==
    /\ pc[Sweeper] = "sw_forfeit"
    /\ LET l == loc[Sweeper] IN
       IF l.to_forfeit = <<>>
       THEN /\ Goto(Sweeper, "sleep")
            /\ loc' = [loc EXCEPT ![Sweeper] = NoLoc]
       ELSE /\ loc' = [loc EXCEPT
                   ![Sweeper].code = Head(l.to_forfeit)[1],
                   ![Sweeper].loser = Head(l.to_forfeit)[2],
                   ![Sweeper].to_forfeit = Tail(@)]
            /\ Goto(Sweeper, "f_room")
    /\ sent' = <<>>
    /\ UNCHANGED <<rooms, connections, matchmaking, connection_count,
                   users_db, now, sock, hist>>

\* the clock: time passes in leaps long enough for every timer that was
\* armed before the leap (grace, queue widening, idle and ended rooms)
TickSecs == IDLE_TTL + 1

Tick ==
    /\ now + TickSecs <= MaxTicks * TickSecs
    /\ now' = now + TickSecs
    /\ sent' = <<>>
    /\ UNCHANGED <<rooms, connections, matchmaking, connection_count,
                   users_db, sock, pc, loc, hist>>

\* the clock of the sweeper's specification: a leap just past the idle
\* threshold or just past the age at which a Waiting room is deleted
LeapSecs == {IDLE_TTL + 1, WAITING_TTL + 1}
MaxNow == WAITING_TTL + 2

Leap(secs) ==
    /\ now + secs <= MaxNow
    /\ now' = now + secs
    /\ sent' = <<>>
    /\ UNCHANGED <<rooms, connections, matchmaking, connection_count,
                   users_db, sock, pc, loc, hist>>

\* ---------------------------------------------------------- specifications
\* the steps of a task inside end_game, or in forfeit_player after its
\* room block
Conclude(p) ==
    \/ ReadRatings(p)
    \/ UpdateRatings(p)
    \/ RecordMatch(p)
    \/ Notify(p)

\* the user of each socket: socket 3 is a second connection of user 1
PlayUser == [s \in Socks |-> IF s = 3 THEN 1 ELSE s]

\* The PlaceNumber and EraseNumber frames the clients send: every value on
\* every open cell, one given cell, and one frame for each way of being
\* out of range.
OpenCells == {rc \in Cells : IsOpen(rc)}
GivenProbe == <<BoardSide - 1, BoardSide - 1>>
PlaceInputs ==
    {<<rc[1], rc[2], v>> : rc \in OpenCells, v \in 1 .. MaxValue}
    \cup {<<GivenProbe[1], GivenProbe[2], 1>>}
    \cup {<<BoardSide, 0, 1>>, <<0, BoardSide, 1>>, <<0, 0, 0>>,
          <<0, 0, MaxValue + 1>>}
EraseInputs == OpenCells \cup {GivenProbe, <<BoardSide, 0>>}

\* Two players on one connection each and one room code: rooms of both
\* modes, moves and erasures.
NextPlay ==
    \E s \in {1, 2} :
        \/ Upgrade(s, PlayUser[s])
        \/ Register(s)
        \/ \E mode \in Modes : CreateRoom(s, mode, "Easy", "R1")
        \/ CreateRoomAssoc(s)
        \/ JoinRoom(s, "R1")
        \/ JoinRoomStart(s)
        \/ \E in \in PlaceInputs : PlaceNumber(s, in[1], in[2], in[3])
        \/ PlaceNumberRoom(s)
        \/ PlaceNumberReply(s)
        \/ \E in \in EraseInputs : EraseNumber(s, in[1], in[2])
        \/ EraseNumberRoom(s)
        \/ EraseNumberNotify(s)
        \/ Conclude(s)

SpecPlay == Init /\ [][NextPlay]_vars

\* the disconnect path of a socket
Disconnect(s) ==
    \/ Close(s)
    \/ Disconnected(s)
    \/ StripQueues(s)
    \/ Unregister(s)

\* the sweeper task
Sweep ==
    \/ \E order \in Orders(DOMAIN rooms) : cleanup(order)
    \/ cleanup_remove
    \/ cleanup_forfeit

\* Two players on one connection each and one Race room, created by the
\* first and joined by the second: every way a game is concluded (a
\* completed board, Forfeit, the grace timer after a disconnect, the
\* sweeper's idle forfeit).
EndInputs == {<<rc[1], rc[2], 1>> : rc \in OpenCells}

NextEnd ==
    \/ \E s \in {1, 2} :
        \/ Upgrade(s, PlayUser[s])
        \/ Register(s)
        \/ (hist.rid = 0 /\ s = 1 /\ CreateRoom(s, "Race", "Easy", "R1"))
        \/ CreateRoomAssoc(s)
        \/ (s = 2 /\ JoinRoom(s, "R1"))
        \/ JoinRoomStart(s)
        \/ \E in \in EndInputs : PlaceNumber(s, in[1], in[2], in[3])
        \/ PlaceNumberRoom(s)
        \/ PlaceNumberReply(s)
        \/ Forfeit(s)
        \/ Disconnect(s)
        \/ GraceExpire(GraceOf(s))
    \/ \E p \in {1, 2, GraceOf(1), GraceOf(2), Sweeper} :
        \/ forfeit_player(p)
        \/ Conclude(p)
    \/ Sweep
    \/ Tick

SpecEnd == Init /\ [][NextEnd]_vars

\* Two players on one connection each and two room codes: rooms are
\* created by the first player, joined, forfeited, completed and rematched.
LifeInputs == {<<rc[1], rc[2], 1>> : rc \in OpenCells}

NextLife ==
    \/ \E s \in {1, 2} :
        \/ Upgrade(s, PlayUser[s])
        \/ Register(s)
        \/ (s = 1 /\ \E code \in Codes : CreateRoom(s, "Shared", "Easy", code))
        \/ CreateRoomAssoc(s)
        \/ \E code \in Codes : JoinRoom(s, code)
        \/ JoinRoomStart(s)
        \/ \E in \in LifeInputs : PlaceNumber(s, in[1], in[2], in[3])
        \/ PlaceNumberRoom(s)
        \/ PlaceNumberReply(s)
        \/ Forfeit(s)
        \/ forfeit_player(s)
        \/ Conclude(s)
        \/ Rematch(s)
        \/ RematchCheck(s)
        \/ \E code \in Codes : RematchInsert(s, code)
        \/ RematchAssoc(s)
        \/ RematchStart(s)

SpecLife == Init /\ [][NextLife]_vars

\* Player 1 on two connections (sockets 1 and 3) and player 2 on one:
\* player 1 creates rooms, player 2 joins them, sockets close, player 1
\* reconnects, grace timers expire.
NextGrace ==
    \/ \E s \in Socks :
        \/ ((s = 3 => hist.registered[1] > 0) /\ Upgrade(s, PlayUser[s]))
        \/ Register(s)
        \/ (s = 1 /\ \E code \in Codes : CreateRoom(s, "Race", "Easy", code))
        \/ CreateRoomAssoc(s)
        \/ (s = 2 /\ JoinRoom(s, "R1"))
        \/ JoinRoomStart(s)
        \/ Disconnect(s)
        \/ RecvNoHandle(s)
        \/ GraceExpire(GraceOf(s))
        \/ forfeit_player(GraceOf(s))
        \/ Conclude(GraceOf(s))
    \/ Tick

SpecGrace == Init /\ [][NextGrace]_vars

\* Three players on one connection each: QuickMatch on one bucket, queue
\* entries that age, the lowest-rated player may disconnect.
NextMatch ==
    \/ \E s \in Socks :
        \/ Upgrade(s, s)
        \/ Register(s)
        \/ QuickMatch(s, "Race", "Easy")
        \/ \E code \in Codes : QuickMatchInsert(s, code)
        \/ QuickMatchAssoc(s)
        \/ QuickMatchStart(s)
        \/ (s = 1 /\ Disconnect(s))
    \/ Tick

SpecMatch == Init /\ [][NextMatch]_vars

\* Two players whose stored ratings are far apart or equal, one Race room
\* created by the first and joined by the second, and Forfeit by either.
RatingSamples == {480, 1200, 1920}

InitRated ==
    /\ rooms = <<>>
    /\ connections = <<>>
    /\ matchmaking = [k \in Modes \X Difficulties |-> <<>>]
    /\ connection_count = 0
    /\ \E r1, r2 \in RatingSamples :
          users_db = [u \in Users |->
                         [rating |-> CASE u = 1 -> r1 [] u = 2 -> r2
                                       [] OTHER -> DEFAULT_RATING,
                          wins |-> 0, losses |-> 0]]
    /\ now = 0
    /\ sock = [s \in Socks |-> [user |-> NoUser, rating |-> 0]]
    /\ pc = [p \in Procs |-> IF p = Sweeper THEN "sleep" ELSE "none"]
    /\ loc = [p \in Procs |-> NoLoc]
    /\ sent = <<>>
    /\ hist = HistInit

NextRated ==
    \E s \in {1, 2} :
        \/ Upgrade(s, PlayUser[s])
        \/ Register(s)
        \/ (hist.rid = 0 /\ s = 1 /\ CreateRoom(s, "Race", "Easy", "R1"))
        \/ CreateRoomAssoc(s)
        \/ (s = 2 /\ JoinRoom(s, "R1"))
        \/ JoinRoomStart(s)
        \/ Forfeit(s)
        \/ forfeit_player(s)
        \/ Conclude(s)

SpecRated == InitRated /\ [][NextRated]_vars

\* Three players on one connection each: the first creates rooms, every
\* player sends JoinRoom with every code, the creator may disconnect and
\* the second player may forfeit.
NextJoin ==
    \E s \in Socks :
        \/ Upgrade(s, s)
        \/ Register(s)
        \/ (s = 1 /\ \E code \in Codes : CreateRoom(s, "Race", "Easy", code))
        \/ CreateRoomAssoc(s)
        \/ \E code \in Codes : JoinRoom(s, code)
        \/ JoinRoomStart(s)
        \/ (s = 1 /\ Disconnect(s))
        \/ (s = 2 /\ Forfeit(s))
        \/ forfeit_player(s)
        \/ Conclude(s)

SpecJoin == Init /\ [][NextJoin]_vars

\* Player 1 on two connections (sockets 1 and 3) and player 2 on one, each
\* sending frames inside and outside the rate-limit window; player 1 holds
\* a room.
NextRate ==
    \E s \in Socks :
        \/ ((s = 3 => hist.registered[1] > 0) /\ Upgrade(s, PlayUser[s]))
        \/ Register(s)
        \/ (s = 1 /\ CreateRoom(s, "Race", "Easy", "R1"))
        \/ CreateRoomAssoc(s)
        \/ \E elapsed \in BOOLEAN : Ping(s, elapsed)
        \/ RateLimited(s)

SpecRate == Init /\ [][NextRate]_vars

\* The server two connections short of its capacity (the other connections
\* belong to users outside Users and stay idle), and three upgrades that
\* arrive together; connections close again.
InitFull ==
    /\ rooms = <<>>
    /\ connections = <<>>
    /\ matchmaking = [k \in Modes \X Difficulties |-> <<>>]
    /\ connection_count = max_connections - 2
    /\ users_db = [u \in Users |->
                      [rating |-> InitRating[u], wins |-> 0, losses |-> 0]]
    /\ now = 0
    /\ sock = [s \in Socks |-> [user |-> NoUser, rating |-> 0]]
    /\ pc = [p \in Procs |-> IF p = Sweeper THEN "sleep" ELSE "none"]
    /\ loc = [p \in Procs |-> NoLoc]
    /\ sent = <<>>
    /\ hist = HistInit

NextFull ==
    \E s \in Socks :
        \/ Upgrade(s, s)
        \/ Register(s)
        \/ Ping(s, TRUE)
        \/ Disconnect(s)

SpecFull == InitFull /\ [][NextFull]_vars

\* Two players and one Race room whose game ends by a completed board or a
\* Forfeit while the database may fail at either call; the second player
\* may disconnect.
NextFail ==
    \E s \in {1, 2} :
        \/ Upgrade(s, PlayUser[s])
        \/ Register(s)
        \/ (hist.rid = 0 /\ s = 1 /\ CreateRoom(s, "Race", "Easy", "R1"))
        \/ CreateRoomAssoc(s)
        \/ (s = 2 /\ JoinRoom(s, "R1"))
        \/ JoinRoomStart(s)
        \/ \E in \in EndInputs : PlaceNumber(s, in[1], in[2], in[3])
        \/ PlaceNumberRoom(s)
        \/ PlaceNumberReply(s)
        \/ Forfeit(s)
        \/ forfeit_player(s)
        \/ (s = 2 /\ Disconnect(s))
        \/ Conclude(s)
        \/ \E done \in {0, 1} : UpdateRatingsFails(s, done)
        \/ RecordMatchFails(s)

SpecFail == Init /\ [][NextFail]_vars

\* Two players and two room codes: the first player creates Race rooms and
\* places numbers, the second joins, time passes and the sweeper runs.
SweepInputs == {<<0, 0, 1>>}

NextSweep ==
    \/ \E s \in {1, 2} :
        \/ Upgrade(s, PlayUser[s])
        \/ Register(s)
        \/ (s = 1 /\ \E code \in Codes \ DOMAIN rooms :
                         CreateRoom(s, "Race", "Easy", code))
        \/ CreateRoomAssoc(s)
        \/ (s = 2 /\ \E code \in Codes : JoinRoom(s, code))
        \/ JoinRoomStart(s)
        \/ (s = 1 /\ \E in \in SweepInputs :
                         PlaceNumber(s, in[1], in[2], in[3]))
        \/ PlaceNumberRoom(s)
        \/ PlaceNumberReply(s)
    \/ Sweep
    \/ forfeit_player(Sweeper)
    \/ Conclude(Sweeper)
    \/ \E secs \in LeapSecs : Leap(secs)

SpecSweep == Init /\ [][NextSweep]_vars

\* A player who comes back: player 1 (socket 1) creates Race room R1, player
\* 2 joins, numbers are placed, socket 1 closes, and player 1 connects again
\* on socket 3 and places a number; the grace timer of socket 1 runs.
ReconnectInputs == {<<0, 0, 1>>}

NextReconnect ==
    \/ \E s \in Socks :
        \/ ((s = 3 => pc[1] = "closed") /\ Upgrade(s, PlayUser[s]))
        \/ Register(s)
        \/ (hist.rid = 0 /\ s = 1 /\ CreateRoom(s, "Race", "Easy", "R1"))
        \/ CreateRoomAssoc(s)
        \/ (s = 2 /\ JoinRoom(s, "R1"))
        \/ JoinRoomStart(s)
        \/ \E in \in ReconnectInputs : PlaceNumber(s, in[1], in[2], in[3])
        \/ PlaceNumberRoom(s)
        \/ PlaceNumberReply(s)
        \/ (s = 1 /\ Disconnect(s))
        \/ GraceExpire(GraceOf(s))
        \/ forfeit_player(GraceOf(s))
        \/ Conclude(GraceOf(s))
    \/ Tick

SpecReconnect == Init /\ [][NextReconnect]_vars

\* The state in which a game has just ended: players 1 and 2 on one
\* connection each, their Shared room R1 forfeited by player 2 and
\* concluded, both handles still associated with it.  The room was created
\* before the behaviour starts (rid 0).  Both players send Rematch and
\* place a number; codes are drawn from those not in use.
InitRematch ==
    /\ now = 0
    /\ rooms = Put(<<>>, "R1",
                   [NewRoom(0, "R1", "Shared", "Easy", "Ended", 1, 2)
                       EXCEPT !.started_at = now])
    /\ users_db = update_ratings(
                      [u \in Users |-> [rating |-> InitRating[u],
                                        wins |-> 0, losses |-> 0]],
                      1, 2,
                      calculate_elo(InitRating[1], InitRating[2], TRUE),
                      calculate_elo(InitRating[2], InitRating[1], FALSE))
    /\ connections = [u \in {1, 2} |->
                         [sock |-> u, rating |-> users_db[u].rating,
                          room_code |-> "R1", message_count |-> 1]]
    /\ matchmaking = [k \in Modes \X Difficulties |-> <<>>]
    /\ connection_count = 2
    /\ sock = [s \in Socks |->
                  IF s \in {1, 2} THEN [user |-> s, rating |-> InitRating[s]]
                  ELSE [user |-> NoUser, rating |-> 0]]
    /\ pc = [p \in Procs |-> IF p = Sweeper THEN "sleep"
                              ELSE IF p \in {1, 2} THEN "loop" ELSE "none"]
    /\ loc = [p \in Procs |-> NoLoc]
    /\ sent = <<>>
    /\ hist = [HistInit EXCEPT !.registered =
                   [u \in Users |-> IF u \in {1, 2} THEN 1 ELSE 0]]

RematchInputs == {<<0, 0, 1>>}

NextRematch ==
    \E s \in {1, 2} :
        \/ Rematch(s)
        \/ RematchCheck(s)
        \/ \E code \in Codes \ DOMAIN rooms : RematchInsert(s, code)
        \/ RematchAssoc(s)
        \/ RematchStart(s)
        \/ \E in \in RematchInputs : PlaceNumber(s, in[1], in[2], in[3])
        \/ PlaceNumberRoom(s)
        \/ PlaceNumberReply(s)

SpecRematch == InitRematch /\ [][NextRematch]_vars

\* After the game of InitRematch both players send QuickMatch, in either
\* mode; the clock moves, so that a queued entry's range widens.
NextRequeue ==
    \/ \E s \in {1, 2} :
        \/ \E mode \in Modes : QuickMatch(s, mode, "Easy")
        \/ \E code \in Codes \ DOMAIN rooms : QuickMatchInsert(s, code)
        \/ QuickMatchAssoc(s)
        \/ QuickMatchStart(s)
    \/ Tick

SpecRequeue == InitRematch /\ [][NextRequeue]_vars

\* Two players, 300 rating points apart, who send QuickMatch for the same
\* bucket while the clock moves.  A handler that has started runs to its
\* end and the clock keeps moving; no client is obliged to send anything.
NextQueue ==
    \/ \E s \in {1, 2} :
        \/ Upgrade(s, s)
        \/ Register(s)
        \/ QuickMatch(s, "Race", "Easy")
        \/ \E code \in Codes \ DOMAIN rooms : QuickMatchInsert(s, code)
        \/ QuickMatchAssoc(s)
        \/ QuickMatchStart(s)
    \/ Tick

SpecQueue == Init /\ [][NextQueue]_vars

LiveQueue ==
    /\ SpecQueue
    /\ WF_vars(Tick)
    /\ \A s \in {1, 2} :
          /\ WF_vars(Register(s))
          /\ WF_vars(\E code \in Codes \ DOMAIN rooms :
                         QuickMatchInsert(s, code))
          /\ WF_vars(QuickMatchAssoc(s))
          /\ WF_vars(QuickMatchStart(s))

\* Two players, a room of either mode created by the first while no room is
\* stored and joined by the second, a placement by the creator, a
\* Forfeit, the sweeper, and the progress broadcasters.  The players'
\* requests arrive before the clock first moves.  A tick that fell due
\* before the present instant has run before anything else happens: the
\* broadcaster's period is far below every leap of the clock.
ProgressInputs == {<<0, 0, 1>>}

InitProgress ==
    /\ rooms = <<>>
    /\ connections = <<>>
    /\ matchmaking = [k \in Modes \X Difficulties |-> <<>>]
    /\ connection_count = 0
    /\ users_db = [u \in Users |->
                      [rating |-> InitRating[u], wins |-> 0, losses |-> 0]]
    /\ now = 0
    /\ sock = [s \in Socks |-> [user |-> NoUser, rating |-> 0]]
    /\ pc = [p \in Procs \cup Broadcasters |->
                IF p = Sweeper THEN "sleep" ELSE "none"]
    /\ loc = [p \in Procs \cup Broadcasters |-> NoLoc]
    /\ sent = <<>>
    /\ hist = HistInit

InTime == \A b \in Broadcasters : ~ Overdue(b)

ProgressRequests ==
    /\ InTime
    /\ now = 0
    /\ \E s \in {1, 2} :
         \/ Upgrade(s, PlayUser[s])
         \/ Register(s)
         \/ (s = 1 /\ rooms = <<>>
                   /\ \E mode \in Modes, code \in Codes \ DOMAIN rooms :
                          CreateRoom(s, mode, "Easy", code))
         \/ CreateRoomAssoc(s)
         \/ (s = 2 /\ \E code \in Codes : JoinRoom(s, code))
         \/ JoinRoomStart(s)
         \/ (s = 1 /\ \E in \in ProgressInputs :
                          PlaceNumber(s, in[1], in[2], in[3]))
         \/ PlaceNumberRoom(s)
         \/ PlaceNumberReply(s)
         \/ (s = 2 /\ Forfeit(s))
         \/ forfeit_player(s)
         \/ Conclude(s)

ProgressSweeper ==
    /\ InTime
    /\ \/ Sweep
       \/ forfeit_player(Sweeper)
       \/ Conclude(Sweeper)

ProgressClock == InTime /\ \E secs \in LeapSecs : Leap(secs)

NextProgress ==
    \/ ProgressRequests
    \/ ProgressSweeper
    \/ ProgressClock
    \/ \E b \in Broadcasters : progress_tick(b)

SpecProgress == InitProgress /\ [][NextProgress]_vars

\* The sweeper's loop and every broadcaster's loop are tasks of the runtime
\* and keep being scheduled; the clock keeps moving.
LiveProgress ==
    /\ SpecProgress
    /\ WF_vars(ProgressSweeper)
    /\ WF_vars(ProgressClock)
    /\ \A b \in Broadcasters : WF_vars(progress_tick(b))

\* Two players who create, join and forfeit rooms and then fall
\* silent (their requests all arrive before the clock first moves), and the
\* sweeper, which keeps running while time passes.
NextLeak ==
    \/ /\ now = 0
       /\ \E s \in {1, 2} :
            \/ Upgrade(s, PlayUser[s])
            \/ Register(s)
            \/ (s = 1 /\ \E code \in Codes \ DOMAIN rooms :
                             CreateRoom(s, "Race", "Easy", code))
            \/ CreateRoomAssoc(s)
            \/ (s = 2 /\ \E code \in Codes : JoinRoom(s, code))
            \/ JoinRoomStart(s)
            \/ (s = 2 /\ Forfeit(s))
            \/ forfeit_player(s)
            \/ Conclude(s)
    \/ Sweep
    \/ forfeit_player(Sweeper)
    \/ Conclude(Sweeper)
    \/ \E secs \in LeapSecs : Leap(secs)

SpecLeak == Init /\ [][NextLeak]_vars

\* the sweeper task is scheduled and its interval keeps ticking (lib.rs
\* 43-50): every step of the sweeper that stays enabled is taken, and time
\* passes
LiveLeak ==
    /\ SpecLeak
    /\ WF_vars(Sweep)
    /\ WF_vars(forfeit_player(Sweeper))
    /\ WF_vars(Conclude(Sweeper))
    /\ WF_vars(\E secs \in LeapSecs : Leap(secs))

\* ------------------------------------------------------------- properties
\* process p leaves the step labelled l
Stepped(p, l) == pc[p] = l /\ pc'[p] # l

\* the cell a PlaceNumber or EraseNumber in progress is about
Target(s) == <<loc[s].row, loc[s].col>>

\* cells of a board that hold the solution's value
Matching(board, solution) ==
    Cardinality({rc \in Cells : value(board[rc]) = solution[rc]})

\* C3: in a Shared room that is Playing, a PlaceNumber on a claimed cell is
\* answered MoveRejected "Cell already claimed", and a claimed cell keeps
\* its value and its owner in every step except the owner's own erase; so
\* of two placements on the same open cell only the first is accepted.
C3_OwnerErases(c, rc, owner) ==
    \E s \in Socks : /\ Stepped(s, "e_room")
                     /\ sock[s].user = owner
                     /\ loc[s].code = c
                     /\ Target(s) = rc

C3_FirstWriteWins ==
    [][\A c \in DOMAIN rooms :
         (rooms[c].mode = "Shared" /\ rooms[c].state = "Playing") =>
         \A rc \in DOMAIN rooms[c].cell_ownership :
            /\ \A s \in Socks :
                 (Stepped(s, "p_room") /\ loc[s].code = c /\ Target(s) = rc)
                 => /\ Len(sent') = 1
                    /\ sent'[1].to = s
                    /\ sent'[1].msg = MoveRejected(rc[1], rc[2],
                                                   "Cell already claimed")
            /\ (/\ c \in DOMAIN rooms'
                /\ rooms'[c].rid = rooms[c].rid
                /\ ~ C3_OwnerErases(c, rc, rooms[c].cell_ownership[rc]))
               => /\ rooms'[c].shared_board[rc] = rooms[c].shared_board[rc]
                  /\ rc \in DOMAIN rooms'[c].cell_ownership
                  /\ rooms'[c].cell_ownership[rc]
                         = rooms[c].cell_ownership[rc]]_vars

\* a player has just been refused a cell the other player owns
C3_Witness ==
    /\ Len(sent) = 1
    /\ sent[1].msg.type = "MoveRejected"
    /\ sent[1].msg.reason = "Cell already claimed"
    /\ \E c \in DOMAIN rooms :
          LET rc == <<sent[1].msg.row, sent[1].msg.col>> IN
          /\ rooms[c].mode = "Shared"
          /\ rooms[c].state = "Playing"
          /\ rc \in DOMAIN rooms[c].cell_ownership
          /\ rooms[c].cell_ownership[rc] # sent[1].user
          /\ rooms[c].shared_board[rc][2] # 1

\* C4: every given cell of a room holds its given value on the puzzle
\* board, on every overlay and on the shared board, and a PlaceNumber on a
\* given cell is answered MoveRejected "Cannot modify a given cell" and
\* changes no board.
C4_GivensIntact(room) ==
    \A rc \in Cells \ OpenCells :
        LET g == Given(solution_of[rc]) IN
        /\ room.board[rc] = g
        /\ room.shared_board[rc] = g
        /\ \A u \in DOMAIN room.player_boards : room.player_boards[u][rc] = g

C4_GivensNeverOverwritten ==
    [][/\ \A c \in DOMAIN rooms' : C4_GivensIntact(rooms'[c])
       /\ \A s \in Socks :
            (/\ Stepped(s, "p_room")
             /\ loc[s].code \in DOMAIN rooms
             /\ rooms[loc[s].code].state = "Playing"
             /\ Target(s) \notin OpenCells)
            => LET c == loc[s].code IN
               /\ Len(sent') = 1
               /\ sent'[1].to = s
               /\ sent'[1].msg = MoveRejected(loc[s].row, loc[s].col,
                                              "Cannot modify a given cell")
               /\ rooms'[c].board = rooms[c].board
               /\ rooms'[c].shared_board = rooms[c].shared_board
               /\ rooms'[c].player_boards = rooms[c].player_boards
               /\ rooms'[c].cell_ownership = rooms[c].cell_ownership]_vars

\* a placement on a given cell has just been refused in a Playing room
C4_Witness ==
    /\ Len(sent) = 1
    /\ sent[1].msg.type = "MoveRejected"
    /\ sent[1].msg.reason = "Cannot modify a given cell"
    /\ \E c \in DOMAIN rooms :
          /\ rooms[c].state = "Playing"
          /\ sent[1].user \in {rooms[c].player1_id, rooms[c].player2_id}
          /\ \E u \in DOMAIN rooms[c].player_boards :
                filled_count(rooms[c].player_boards[u]) > 0

C6_WrongBoardDoesNotEnd ==
    [][\A s \in Socks :
         LET u == sock[s].user
             c == loc[s].code
         IN  (/\ Stepped(s, "p_room")
              /\ c \in DOMAIN rooms
              /\ rooms[c].state = "Playing"
              /\ rooms[c].mode = "Race"
              /\ Target(s) \in OpenCells
              /\ all_filled(rooms'[c].player_boards[u])
              /\ Matching(rooms'[c].player_boards[u], rooms[c].solution)
                     < Cardinality(Cells))
             => /\ rooms'[c].state = "Playing"
                /\ ~ loc'[s].complete]_vars

\* C1: whatever the interleaving of a completing placement, a Forfeit, a
\* grace timer and the sweeper, a room is concluded at most once: at most
\* one update_ratings, at most one record_match and at most one GameEnd
\* for each player.
C1_ConcludedAtMostOnce ==
    \A rid \in 1 .. MaxRooms :
        /\ hist.update_ratings[rid] <= 1
        /\ hist.record_match[rid] <= 1
        /\ \A u \in Users : hist.game_end[rid][u] <= 1

\* a grace timer and the sweeper are both about to forfeit a room that a
\* third task has already concluded
C1_Witness ==
    /\ pc[Sweeper] = "f_room"
    /\ \E g \in Graces :
          /\ pc[g] = "f_room"
          /\ loc[g].code = loc[Sweeper].code
          /\ loc[g].code \in DOMAIN rooms
          /\ rooms[loc[g].code].state = "Ended"
          /\ hist.update_ratings[rooms[loc[g].code].rid] = 1
          /\ hist.record_match[rooms[loc[g].code].rid] = 1
          /\ \E u \in Users : hist.game_end[rooms[loc[g].code].rid][u] = 1

\* C2: the state of a room only moves forward, Waiting to Playing by a
\* JoinRoom and Playing to Ended by a placement or a forfeit, and the
\* insert of a Rematch changes no room that exists and adds a room of a
\* new allocation in Playing.
C2_Rank(state) ==
    CASE state = "Waiting" -> 0
      [] state = "Playing" -> 1
      [] state = "Ended" -> 2

C2_StateOnlyAdvances ==
    [][/\ \A c \in DOMAIN rooms \cap DOMAIN rooms' :
            rooms'[c].rid = rooms[c].rid =>
            LET from == rooms[c].state
                to == rooms'[c].state
            IN  /\ C2_Rank(to) >= C2_Rank(from)
                /\ (from = "Waiting" /\ to # "Waiting") =>
                      /\ to = "Playing"
                      /\ \E s \in Socks : /\ Stepped(s, "loop")
                                          /\ pc'[s] = "j_start"
                                          /\ loc'[s].code = c
                /\ (from = "Playing" /\ to # "Playing") =>
                      \E q \in Procs : /\ \/ Stepped(q, "p_room")
                                          \/ Stepped(q, "f_room")
                                       /\ loc[q].code = c
       /\ \A s \in Socks :
            Stepped(s, "r_insert") =>
            /\ \A c \in DOMAIN rooms :
                  /\ c \in DOMAIN rooms'
                  /\ rooms'[c] = rooms[c] \/ rooms'[c].rid = hist.rid + 1
            /\ \E c \in DOMAIN rooms' :
                  /\ rooms'[c].rid = hist.rid + 1
                  /\ rooms'[c].state = "Playing"
                  /\ rooms'[c].player1_id = sock[s].user
                  /\ rooms'[c].player2_id = loc[s].opp]_vars

\* a Rematch has just allocated its room next to the Ended room it is the
\* rematch of
C2_Witness ==
    \E s \in Socks :
        /\ pc[s] = "r_assoc"
        /\ loc[s].code \in DOMAIN rooms
        /\ loc[s].new_code \in DOMAIN rooms
        /\ rooms[loc[s].code].state = "Ended"
        /\ rooms[loc[s].new_code].state = "Playing"
        /\ rooms[loc[s].new_code].rid > rooms[loc[s].code].rid

\* the Playing rooms a user is seated in
C7_Seated(u) ==
    {c \in DOMAIN rooms : /\ rooms[c].state = "Playing"
                          /\ u \in {rooms[c].player1_id, rooms[c].player2_id}}

\* C7: when the socket of a player who connected once is closed, every
\* Playing room the player is seated in gets a grace timer and its
\* opponent, if connected, is sent OpponentDisconnected; the timer, once
\* expired with the player absent, forfeits its room, which ends with the
\* opponent as winner.
C7_DisconnectForfeits ==
    [][\A s \in Socks :
         LET u == sock[s].user
             g == GraceOf(s)
         IN
         /\ (Stepped(s, "d_room") /\ hist.registered[u] = 1) =>
               \A c \in C7_Seated(u) :
                  /\ pc'[g] = "sleep"
                  /\ loc'[g].code = c
                  /\ loc'[g].loser = u
                  /\ OpponentIn(rooms[c], u) \in DOMAIN connections =>
                        \E i \in 1 .. Len(sent') :
                           /\ sent'[i].user = OpponentIn(rooms[c], u)
                           /\ sent'[i].msg = OpponentDisconnected
         /\ (Stepped(g, "sleep") /\ hist.registered[u] = 1
                /\ loc[g].code \in C7_Seated(u))
               => pc'[g] = "f_room"
         /\ (Stepped(g, "f_room") /\ loc[g].code \in C7_Seated(loc[g].loser))
               => /\ rooms'[loc[g].code].state = "Ended"
                  /\ pc'[g] = "c_read"
                  /\ loc'[g].winner
                        = OpponentIn(rooms[loc[g].code], loc[g].loser)]_vars

\* C8: when the grace timer of a closed socket expires on a Playing room
\* of its player while a connection that the same player opened later is
\* registered and open, the timer ends without going on to forfeit the
\* room.
C8_ReconnectPreventsForfeit ==
    [][(/\ Stepped(GraceOf(1), "sleep")
        /\ loc[GraceOf(1)].code \in C7_Seated(sock[1].user)
        /\ sock[3].user = sock[1].user
        /\ pc[3] = "loop")
       => pc'[GraceOf(1)] = "done"]_vars

\* the entries of a bucket that belong to a user
C9_Own(queue, u) == {j \in 1 .. Len(queue) : queue[j].user_id = u}

\* C9: a QuickMatch queues its caller only when no entry of another user in
\* the bucket is within 200 rating points; otherwise the caller is paired:
\* the partner's entry leaves the bucket (it is the one entry within 200
\* when the bucket holds only that), one room is created, Playing, with the
\* partner as player1 and the caller as player2, and MatchStarted goes to
\* the caller naming the partner and to the partner, if still connected,
\* naming the caller.
C9_QuickMatchPairs ==
    [][/\ \A key \in DOMAIN matchmaking :
            Len(matchmaking'[key]) > Len(matchmaking[key]) =>
            LET e == matchmaking'[key][Len(matchmaking'[key])] IN
            /\ matchmaking'[key] = Append(matchmaking[key], e)
            /\ rooms' = rooms
            /\ \A j \in 1 .. Len(matchmaking[key]) :
                  /\ matchmaking[key][j].user_id # e.user_id
                  /\ Abs(e.rating - matchmaking[key][j].rating) > ELO_RANGE
       /\ \A s \in Socks :
            /\ (Stepped(s, "loop") /\ pc'[s] = "q_insert") =>
               LET key == queue_key(loc'[s].mode, loc'[s].difficulty)
                   queue == matchmaking[key]
               IN
               /\ loc'[s].opp # sock[s].user
               /\ \E i \in C9_Own(queue, loc'[s].opp) :
                     matchmaking'[key] = RemoveAt(queue, i)
               /\ rooms' = rooms
               /\ (Len(queue) = 1 /\ Abs(sock[s].rating - queue[1].rating)
                                        <= ELO_RANGE)
                  => /\ loc'[s].opp = queue[1].user_id
                     /\ matchmaking'[key] = <<>>
            /\ Stepped(s, "q_insert") =>
                  /\ hist'.rid = hist.rid + 1
                  /\ \E c \in DOMAIN rooms' :
                        /\ rooms'[c].rid = hist'.rid
                        /\ rooms'[c].state = "Playing"
                        /\ rooms'[c].player1_id = loc[s].opp
                        /\ rooms'[c].player2_id = sock[s].user
                        /\ \A d \in DOMAIN rooms' \ {c} :
                              d \in DOMAIN rooms /\ rooms'[d] = rooms[d]
            /\ Stepped(s, "q_start") =>
                  /\ rooms' = rooms
                  /\ \E i \in 1 .. Len(sent') :
                        /\ sent'[i].to = s
                        /\ sent'[i].msg.type = "MatchStarted"
                        /\ sent'[i].msg.opponent_name = loc[s].opp
                  /\ loc[s].opp \in DOMAIN connections =>
                        \E i \in 1 .. Len(sent') :
                           /\ sent'[i].user = loc[s].opp
                           /\ sent'[i].msg.type = "MatchStarted"
                           /\ sent'[i].msg.opponent_name = sock[s].user]_vars

\* two players within 200 points have just been told of their match, with
\* one room in Playing that seats both and an empty bucket
C9_Witness ==
    /\ Len(sent) = 2
    /\ sent[1].msg.type = "MatchStarted"
    /\ sent[2].msg.type = "MatchStarted"
    /\ sent[1].user # sent[2].user
    /\ sent[1].msg.opponent_name = sent[2].user
    /\ sent[2].msg.opponent_name = sent[1].user
    /\ Abs(sent[1].msg.opponent_rating - sent[2].msg.opponent_rating)
           <= ELO_RANGE
    /\ \A key \in DOMAIN matchmaking : matchmaking[key] = <<>>
    /\ Cardinality(DOMAIN rooms) = 1
    /\ \A c \in DOMAIN rooms :
          /\ rooms[c].state = "Playing"
          /\ rooms[c].player1_id = sent[1].user
          /\ rooms[c].player2_id = sent[2].user

\* C10: a QuickMatch by a user who has an entry in the bucket leaves the
\* bucket as it is and does not pair the user.
C10_QueuedQuickMatchIsNoOp ==
    [][\A s \in Socks :
         (Stepped(s, "loop") /\ pc'[s] = "q_insert") =>
            LET key == queue_key(loc'[s].mode, loc'[s].difficulty) IN
            C9_Own(matchmaking[key], sock[s].user) = {}]_vars

\* C11: no bucket of the matchmaking queue holds two entries of one user.
C11_NoDuplicateEntries ==
    \A key \in DOMAIN matchmaking :
        \A i, j \in 1 .. Len(matchmaking[key]) :
            i # j => matchmaking[key][i].user_id # matchmaking[key][j].user_id

\* a user who has an entry in the bucket has just been paired by a second
\* QuickMatch, and the entry is still in the bucket
C11_Witness ==
    \E s \in Socks :
        /\ pc[s] = "q_insert"
        /\ C9_Own(matchmaking[queue_key(loc[s].mode, loc[s].difficulty)],
                  sock[s].user) # {}

\* C12: the QuickMatch that pairs two users and the insert of their room
\* leave no entry of either user in the bucket the pairing came from.
C12_PairedNotQueued ==
    [][\A s \in Socks :
         /\ (Stepped(s, "loop") /\ pc'[s] = "q_insert") =>
               LET queue == matchmaking'[queue_key(loc'[s].mode,
                                                   loc'[s].difficulty)]
               IN  /\ C9_Own(queue, sock[s].user) = {}
                   /\ C9_Own(queue, loc'[s].opp) = {}
         /\ Stepped(s, "q_insert") =>
               LET queue == matchmaking'[queue_key(loc[s].mode,
                                                   loc[s].difficulty)]
               IN  /\ C9_Own(queue, sock[s].user) = {}
                   /\ C9_Own(queue, loc[s].opp) = {}]_vars

\* C13: a Forfeit on a Playing room ends it with the other seat as winner,
\* and the GameEnd of the winner carries won and an elo_change above zero,
\* the GameEnd of the forfeiter not won and an elo_change below zero, both
\* with scores 0.
C13_ForfeitAwards ==
    [][\A s \in Socks :
         /\ (/\ Stepped(s, "f_room")
             /\ loc[s].code \in DOMAIN rooms
             /\ rooms[loc[s].code].state = "Playing"
             /\ rooms[loc[s].code].player2_id # NoUser)
            => /\ rooms'[loc[s].code].state = "Ended"
               /\ loc'[s].loser = sock[s].user
               /\ loc'[s].winner = OpponentIn(rooms[loc[s].code], sock[s].user)
               /\ pc'[s] = "c_read"
         /\ (Stepped(s, "c_notify") /\ loc[s].kind = "forfeit")
            => \A i \in 1 .. Len(sent') :
                  LET m == sent'[i].msg IN
                  /\ m.type = "GameEnd"
                  /\ m.your_score = 0
                  /\ m.opponent_score = 0
                  /\ sent'[i].user = loc[s].winner
                        => m.won /\ m.elo_change > 0
                  /\ sent'[i].user = loc[s].loser
                        => ~ m.won /\ m.elo_change < 0]_vars

\* the room_code of every registered handle is the same after the step
C14_SameAssociations ==
    /\ DOMAIN connections' = DOMAIN connections
    /\ \A v \in DOMAIN connections :
          connections'[v].room_code = connections[v].room_code

\* C14: a JoinRoom with an unknown code, on a room that is not Waiting or
\* by the room's player1 is answered with one Error ("Room not found" for
\* the unknown code) and changes no room and no association; any other
\* JoinRoom seats the caller; and the player2 of a room changes only from
\* none to the caller of a JoinRoom on a Waiting room, once.
C14_JoinRoomRefusals ==
    [][/\ \A s \in Socks, code \in Codes :
            JoinRoom(s, code) =>
            LET u == sock[s].user
                unknown == code \notin DOMAIN rooms
                refused == \/ unknown
                           \/ rooms[code].state # "Waiting"
                           \/ rooms[code].player1_id = u
            IN  /\ refused =>
                      /\ Len(sent') = 1
                      /\ sent'[1].to = s
                      /\ sent'[1].msg.type = "Error"
                      /\ unknown => sent'[1].msg = MsgError("Room not found")
                      /\ rooms' = rooms
                      /\ C14_SameAssociations
                      /\ pc'[s] = "loop"
                /\ ~ refused =>
                      /\ rooms'[code].player2_id = u
                      /\ pc'[s] = "j_start"
       /\ \A c \in DOMAIN rooms \cap DOMAIN rooms' :
            (/\ rooms'[c].rid = rooms[c].rid
             /\ rooms'[c].player2_id # rooms[c].player2_id)
            => /\ rooms[c].player2_id = NoUser
               /\ rooms[c].state = "Waiting"
               /\ rooms'[c].state = "Playing"
               /\ \E s \in Socks : /\ JoinRoom(s, c)
                                   /\ rooms'[c].player2_id = sock[s].user]_vars

\* the third player has just been refused a room that the second player
\* joined
C14_Witness ==
    /\ Len(sent) = 1
    /\ sent[1].msg = MsgError("Room is not accepting players")
    /\ sent[1].user = 3
    /\ \E c \in DOMAIN rooms :
          /\ rooms[c].state = "Playing"
          /\ rooms[c].player1_id = 1
          /\ rooms[c].player2_id = 2

C16_Except(board, rc) == [x \in Cells \ {rc} |-> board[x]]

\* C16: an EraseNumber on an open cell of a Playing room, in Race mode,
\* empties that cell of the caller's overlay, leaves the rest of the room's
\* boards alone and sends nothing; in Shared mode, when the caller owns the
\* cell, it empties the shared cell, drops the ownership record and is
\* followed by OpponentErased to the other seat, and when the caller does
\* not own the cell it leaves the shared board and the ownership map alone
\* and sends nothing.
C16_EraseNumber ==
    [][\A s \in Socks :
         LET u == sock[s].user
             c == loc[s].code
             rc == Target(s)
         IN
         /\ (/\ EraseNumberRoom(s)
             /\ c \in DOMAIN rooms
             /\ rooms[c].state = "Playing"
             /\ rc \in OpenCells)
            => LET old == rooms[c]
                   new == rooms'[c]
                   opp == OpponentIn(old, u)
               IN
               /\ sent' = <<>>
               /\ new.state = "Playing"
               /\ old.mode = "Race" =>
                     /\ new.player_boards[u][rc] = Empty
                     /\ C16_Except(new.player_boards[u], rc)
                            = C16_Except(old.player_boards[u], rc)
                     /\ new.player_boards[opp] = old.player_boards[opp]
                     /\ new.shared_board = old.shared_board
                     /\ new.cell_ownership = old.cell_ownership
                     /\ pc'[s] = "loop"
               /\ (/\ old.mode = "Shared"
                   /\ rc \in DOMAIN old.cell_ownership
                   /\ old.cell_ownership[rc] = u) =>
                     /\ new.shared_board[rc] = Empty
                     /\ C16_Except(new.shared_board, rc)
                            = C16_Except(old.shared_board, rc)
                     /\ DOMAIN new.cell_ownership
                            = DOMAIN old.cell_ownership \ {rc}
                     /\ \A x \in DOMAIN new.cell_ownership :
                           new.cell_ownership[x] = old.cell_ownership[x]
                     /\ new.player_boards = old.player_boards
                     /\ pc'[s] = "e_notify"
                     /\ loc'[s].opp = opp
               /\ (/\ old.mode = "Shared"
                   /\ ~ (/\ rc \in DOMAIN old.cell_ownership
                         /\ old.cell_ownership[rc] = u)) =>
                     /\ new.shared_board = old.shared_board
                     /\ new.cell_ownership = old.cell_ownership
                     /\ new.player_boards = old.player_boards
                     /\ pc'[s] = "loop"
         /\ EraseNumberNotify(s) =>
               /\ loc[s].opp # u
               /\ loc[s].opp \in DOMAIN connections =>
                     /\ Len(sent') = 1
                     /\ sent'[1].user = loc[s].opp
                     /\ sent'[1].msg = OpponentErased(loc[s].row,
                                                      loc[s].col)]_vars

\* the other seat of a Shared room has just been told of an erase, and the
\* room holds a cell that the other seat owns
C16_Witness ==
    /\ Len(sent) = 1
    /\ sent[1].msg.type = "OpponentErased"
    /\ \E c \in DOMAIN rooms :
          LET rc == <<sent[1].msg.row, sent[1].msg.col>> IN
          /\ rooms[c].mode = "Shared"
          /\ rooms[c].state = "Playing"
          /\ rooms[c].shared_board[rc] = Empty
          /\ rc \notin DOMAIN rooms[c].cell_ownership
          /\ \E x \in DOMAIN rooms[c].cell_ownership :
                rooms[c].cell_ownership[x] = sent[1].user

\* C17: in a Playing Race room a PlaceNumber in range on an open cell puts
\* the value into the caller's overlay at that cell and changes no other
\* cell of it, not the opponent's overlay, the shared board or the
\* ownership map, whatever the value and whatever the cell held, and it is
\* answered MoveAccepted.
C17_RaceAlwaysAccepted ==
    [][\A s \in Socks :
         LET u == sock[s].user
             c == loc[s].code
             rc == Target(s)
         IN
         /\ \A in \in PlaceInputs :
               (/\ PlaceNumber(s, in[1], in[2], in[3])
                /\ in[1] < BoardSide /\ in[2] < BoardSide
                /\ in[3] \in 1 .. MaxValue
                /\ connections[u].room_code # NoCode)
               => /\ pc'[s] = "p_room"
                  /\ loc'[s].code = connections[u].room_code
                  /\ loc'[s].value = in[3]
                  /\ sent' = <<>>
         /\ (/\ PlaceNumberRoom(s)
             /\ c \in DOMAIN rooms
             /\ rooms[c].state = "Playing"
             /\ rooms[c].mode = "Race"
             /\ rc \in OpenCells)
            => LET old == rooms[c]
                   new == rooms'[c]
                   opp == OpponentIn(old, u)
               IN  /\ new.player_boards[u][rc] = UserInput(loc[s].value)
                   /\ C16_Except(new.player_boards[u], rc)
                          = C16_Except(old.player_boards[u], rc)
                   /\ opp # NoUser =>
                         new.player_boards[opp] = old.player_boards[opp]
                   /\ new.shared_board = old.shared_board
                   /\ new.cell_ownership = old.cell_ownership
                   /\ new.board = old.board
                   /\ pc'[s] = "p_reply"
                   /\ loc'[s].mode = "Race"
                   /\ sent' = <<>>
         /\ (PlaceNumberReply(s) /\ loc[s].mode = "Race")
            => /\ Len(sent') = 1
               /\ sent'[1].to = s
               /\ sent'[1].msg = MoveAccepted(loc[s].row, loc[s].col,
                                              loc[s].value)]_vars

\* a value that differs from the solution has just been accepted in a Race
\* room that is still Playing, where the opponent's overlay holds a value
C17_Witness ==
    /\ Len(sent) = 1
    /\ sent[1].msg.type = "MoveAccepted"
    /\ \E c \in DOMAIN rooms :
          LET rc == <<sent[1].msg.row, sent[1].msg.col>>
              opp == OpponentIn(rooms[c], sent[1].user)
          IN  /\ rooms[c].mode = "Race"
              /\ rooms[c].state = "Playing"
              /\ sent[1].user \in DOMAIN rooms[c].player_boards
              /\ rooms[c].player_boards[sent[1].user][rc]
                     = UserInput(sent[1].msg.value)
              /\ sent[1].msg.value # rooms[c].solution[rc]
              /\ opp \in DOMAIN rooms[c].player_boards
              /\ filled_count(rooms[c].player_boards[opp])
                     > filled_count(rooms[c].board)

\* the cells a player owns on the shared board that hold the solution's
\* value
C18_Owned(room, w) ==
    Cardinality({x \in Cells :
                    /\ x \in DOMAIN room.cell_ownership
                    /\ room.cell_ownership[x] = w
                    /\ room.shared_board[x] = UserInput(room.solution[x])})

\* C18: in a Shared room the placement that fills the shared board ends the
\* room in the same step; the winner is the player who owns more cells that
\* hold the solution's value, the player who placed last when both own as
\* many; and the GameEnd of each player carries the player's own count as
\* your_score and the other's as opponent_score.
C18_SharedCompletion ==
    [][\A s \in Socks :
         LET u == sock[s].user
             c == loc[s].code
             rc == Target(s)
         IN
         /\ (/\ PlaceNumberRoom(s)
             /\ c \in DOMAIN rooms
             /\ rooms[c].state = "Playing"
             /\ rooms[c].mode = "Shared"
             /\ rc \in OpenCells
             /\ rc \notin DOMAIN rooms[c].cell_ownership)
            => LET new == rooms'[c]
                   opp == OpponentIn(rooms[c], u)
               IN  /\ new.shared_board[rc] = UserInput(loc[s].value)
                   /\ new.cell_ownership[rc] = u
                   /\ all_filled(new.shared_board) <=> new.state = "Ended"
                   /\ all_filled(new.shared_board) <=> loc'[s].complete
                   /\ pc'[s] = "p_reply"
                   /\ loc'[s].my_score = C18_Owned(new, u)
                   /\ opp # NoUser => loc'[s].opp_score = C18_Owned(new, opp)
         /\ (/\ PlaceNumberReply(s)
             /\ loc[s].mode = "Shared"
             /\ loc[s].complete
             /\ loc[s].opp # NoUser)
            => /\ pc'[s] = "c_read"
               /\ loc'[s].winner = IF loc[s].my_score >= loc[s].opp_score
                                   THEN u ELSE loc[s].opp
               /\ loc'[s].loser = IF loc[s].my_score >= loc[s].opp_score
                                  THEN loc[s].opp ELSE u
         /\ (/\ Notify(s)
             /\ loc[s].kind = "end"
             /\ loc[s].mode = "Shared"
             /\ c \in DOMAIN rooms
             /\ rooms[c].rid = loc[s].rid)
            => /\ rooms[c].state = "Ended"
               /\ Len(sent') = Cardinality({loc[s].winner, loc[s].loser}
                                               \cap DOMAIN connections)
               /\ \A i \in 1 .. Len(sent') :
                     LET m == sent'[i].msg
                         me == sent'[i].user
                         other == OpponentIn(rooms[c], me)
                     IN  /\ m.type = "GameEnd"
                         /\ me \in {loc[s].winner, loc[s].loser}
                         /\ m.won <=> me = loc[s].winner
                         /\ m.your_score = C18_Owned(rooms[c], me)
                         /\ m.opponent_score = C18_Owned(rooms[c], other)
                         /\ m.won => m.your_score >= m.opponent_score
                         /\ ~ m.won => m.your_score <= m.opponent_score]_vars

\* the player who filled the last cell of a shared board has lost to the
\* other player, who owns more cells that hold the solution's value
C18_Witness ==
    \E s \in Socks :
        /\ pc[s] = "c_read"
        /\ loc[s].kind = "end"
        /\ loc[s].mode = "Shared"
        /\ loc[s].winner # sock[s].user
        /\ loc[s].code \in DOMAIN rooms
        /\ rooms[loc[s].code].state = "Ended"
        /\ all_filled(rooms[loc[s].code].shared_board)
        /\ C18_Owned(rooms[loc[s].code], loc[s].winner)
               > C18_Owned(rooms[loc[s].code], sock[s].user)

\* C19: a Rematch sent with no associated room, or
\* from a room that is missing, not Ended or without an opponent, changes no
\* room and no association; from an Ended room with an opponent it inserts
\* a room under a code that is not the old room's and is not in use, in
\* Playing with the caller as player1 and the prior opponent as player2,
\* associates both registered connections with it, and removes the old room
\* and no other, so that the new room is held when the handler returns.
C19_RematchReplacesRoom ==
    [][\A s \in Socks :
         LET u == sock[s].user
             code == loc[s].code
         IN
         /\ (Rematch(s) /\ pc'[s] # "r_check")
            => /\ rooms' = rooms
               /\ \A w \in DOMAIN connections :
                     /\ w \in DOMAIN connections'
                     /\ connections'[w].room_code = connections[w].room_code
         /\ (/\ RematchCheck(s)
             /\ \/ code \notin DOMAIN rooms
                \/ rooms[code].state # "Ended"
                \/ OpponentIn(rooms[code], u) = NoUser)
            => /\ pc'[s] = "loop"
               /\ rooms' = rooms
               /\ connections' = connections
         /\ (/\ RematchCheck(s)
             /\ code \in DOMAIN rooms
             /\ rooms[code].state = "Ended"
             /\ OpponentIn(rooms[code], u) # NoUser)
            => pc'[s] = "r_insert"
         /\ \A new_code \in Codes :
               RematchInsert(s, new_code)
               => /\ new_code # code
                  /\ new_code \notin DOMAIN rooms
                  /\ rooms'[new_code].state = "Playing"
                  /\ rooms'[new_code].player1_id = u
                  /\ rooms'[new_code].player2_id = loc[s].opp
                  /\ rooms'[new_code].rid = hist.rid + 1
         /\ RematchAssoc(s)
            => /\ rooms' = rooms
               /\ DOMAIN connections' = DOMAIN connections
               /\ \A w \in {u, loc[s].opp} \cap DOMAIN connections :
                     connections'[w].room_code = loc[s].new_code
         /\ RematchStart(s)
            => /\ code \notin DOMAIN rooms'
               /\ \A c \in DOMAIN rooms \ {code} :
                     c \in DOMAIN rooms' /\ rooms'[c] = rooms[c]
               /\ loc[s].new_code \in DOMAIN rooms'
               /\ connections' = connections]_vars

\* C20: every step that allocates a room (CreateRoom, the pairing of a
\* QuickMatch, Rematch) inserts it under a code no room is held under, so
\* every room held before the step is held unchanged after it.
C20_InsertNeverReplaces ==
    [][hist'.rid # hist.rid =>
          /\ \A c \in DOMAIN rooms :
                /\ c \in DOMAIN rooms'
                /\ rooms'[c] = rooms[c]
          /\ Cardinality(DOMAIN rooms') = Cardinality(DOMAIN rooms) + 1]_vars

\* C21: a frame that passes the limiter is at most the 20th counted in the
\* handle's window, the count restarting at 1 when the window has elapsed;
\* a frame over the limit is answered on the connection it came in on with
\* the Error "Rate limited", changes no room, no queue and no room
\* association, and leaves the connection in its dispatch loop.
C21_RateLimit ==
    [][\A s \in Socks :
         LET u == sock[s].user IN
         /\ \A elapsed \in BOOLEAN :
               Ping(s, elapsed)
               => /\ connections'[u].message_count <= RATE_LIMIT
                  /\ connections'[u].message_count =
                        IF elapsed THEN 1
                        ELSE connections[u].message_count + 1
         /\ RateLimited(s)
            => /\ connections[u].message_count >= RATE_LIMIT
               /\ sent' = tx_send(s, MsgError("Rate limited"))
               /\ rooms' = rooms
               /\ matchmaking' = matchmaking
               /\ DOMAIN connections' = DOMAIN connections
               /\ \A w \in DOMAIN connections :
                     connections'[w].room_code = connections[w].room_code
               /\ pc'[s] = "loop"]_vars

\* C22: the connection count never exceeds max_connections, and an upgrade
\* that arrives while the count is at the maximum is rejected and never
\* registers.
C22_Capacity ==
    /\ connection_count <= max_connections
    /\ \A s \in Socks : pc[s] = "rejected" => sock[s].user = NoUser

\* C23: the users table changes only when a concluded game is persisted,
\* once per game: the winner's record then has one more win, unchanged
\* losses and the new winner rating, the loser's one more loss, unchanged
\* wins and the new loser rating, and every other record is unchanged.
C23_PersistedRecord ==
    [][/\ users_db' # users_db => \E p \in Procs : UpdateRatings(p)
       /\ \A p \in Procs :
            UpdateRatings(p) =>
            LET w == loc[p].winner
                l == loc[p].loser
            IN  /\ w # l
                /\ loc[p].kind \in {"forfeit", "end"}
                /\ hist.update_ratings[loc[p].rid] = 0
                /\ users_db'[w] =
                      [rating |-> calculate_elo(loc[p].wr, loc[p].lr, TRUE),
                       wins |-> users_db[w].wins + 1,
                       losses |-> users_db[w].losses]
                /\ users_db'[l] =
                      [rating |-> calculate_elo(loc[p].lr, loc[p].wr, FALSE),
                       wins |-> users_db[l].wins,
                       losses |-> users_db[l].losses + 1]
                /\ \A u \in Users \ {w, l} : users_db'[u] = users_db[u]]_vars

\* a game concluded by a completed board has been persisted: the winner has
\* one win and no loss, the loser one loss and no win
C23_Witness ==
    \E p \in Procs :
        /\ pc[p] = "c_record"
        /\ loc[p].kind = "end"
        /\ users_db[loc[p].winner].wins = 1
        /\ users_db[loc[p].winner].losses = 0
        /\ users_db[loc[p].loser].losses = 1
        /\ users_db[loc[p].loser].wins = 0
        /\ users_db[3] = [rating |-> InitRating[3], wins |-> 0, losses |-> 0]

\* C24: a failure of update_ratings or of record_match is dropped: the
\* handler goes on to the next step of the conclusion, the room stays Ended,
\* no connection is closed or unregistered, and the step that follows sends
\* GameEnd to the winner and to the loser, each if connected, and returns
\* to the dispatch loop.
C24_BestEffort ==
    [][\A p \in Socks :
         LET c == loc[p].code
             held == c \in DOMAIN rooms /\ rooms[c].rid = loc[p].rid
         IN
         /\ \A done \in {0, 1} :
               UpdateRatingsFails(p, done)
               => /\ pc'[p] = "c_record"
                  /\ loc'[p] = loc[p]
                  /\ rooms' = rooms /\ connections' = connections
                  /\ connection_count' = connection_count
                  /\ held => rooms[c].state = "Ended"
                  /\ \A q \in Procs \ {p} : pc'[q] = pc[q]
         /\ RecordMatchFails(p)
            => /\ pc'[p] = "c_notify"
               /\ loc'[p] = loc[p]
               /\ rooms' = rooms /\ connections' = connections
               /\ connection_count' = connection_count
               /\ held => rooms[c].state = "Ended"
               /\ \A q \in Procs \ {p} : pc'[q] = pc[q]
         /\ Notify(p)
            => /\ held => rooms'[c].state = "Ended"
               /\ \A u \in {loc[p].winner, loc[p].loser} :
                     u \in DOMAIN connections
                     => \E i \in 1 .. Len(sent') :
                           /\ sent'[i].user = u
                           /\ sent'[i].to = connections[u].sock
                           /\ sent'[i].msg.type = "GameEnd"
                           /\ sent'[i].msg.won <=> u = loc[p].winner
               /\ pc'[p] = "loop"
               /\ DOMAIN connections' = DOMAIN connections
               /\ connection_count' = connection_count]_vars

\* a game has ended and GameEnd has reached both players although neither
\* the ratings nor the match were written
C24_Witness ==
    \E c \in DOMAIN rooms :
        /\ rooms[c].state = "Ended"
        /\ hist.update_ratings[rooms[c].rid] = 1
        /\ hist.record_match[rooms[c].rid] = 0
        /\ \A u \in Users : users_db[u].wins = 0 /\ users_db[u].losses = 0
        /\ hist.game_end[rooms[c].rid][1] = 1
        /\ hist.game_end[rooms[c].rid][2] = 1
        /\ \A s \in {1, 2} : pc[s] = "loop"

\* C25: between two players of the same rating r the winner gains what the
\* loser loses: elo_change(r, r, true) = 16 = -elo_change(r, r, false),
\* calculate_elo(1200, 1200, true) = 1216 and calculate_elo(1200, 1200,
\* false) = 1184, and the GameEnd messages and the users table of a game
\* between equally rated players carry these values.
C25_EqualRatings ==
    [][/\ \A r \in RatingSamples :
            /\ elo_change(r, r, TRUE) = 16
            /\ elo_change(r, r, FALSE) = -16
            /\ calculate_elo(r, r, TRUE) + calculate_elo(r, r, FALSE) = 2 * r
       /\ calculate_elo(DEFAULT_RATING, DEFAULT_RATING, TRUE) = 1216
       /\ calculate_elo(DEFAULT_RATING, DEFAULT_RATING, FALSE) = 1184
       /\ \A p \in Procs :
            LET l == loc[p] IN
            /\ (UpdateRatings(p) /\ l.wr = l.lr)
               => /\ users_db'[l.winner].rating = l.wr + 16
                  /\ users_db'[l.loser].rating = l.lr - 16
            /\ (Notify(p) /\ l.wr = l.lr)
               => \A i \in 1 .. Len(sent') :
                     /\ sent'[i].msg.elo_change =
                           IF sent'[i].msg.won THEN 16 ELSE -16
                     /\ sent'[i].msg.new_rating =
                           l.wr + sent'[i].msg.elo_change]_vars

\* a game between two players rated 1200 has ended: the winner was sent
\* +16 and 1216, the loser -16 and 1184
C25_Witness ==
    /\ Len(sent) = 2
    /\ sent[1].msg = GameEnd(TRUE, 0, 0, 16, 1216)
    /\ sent[2].msg = GameEnd(FALSE, 0, 0, -16, 1184)
    /\ \E u, w \in Users :
          /\ users_db[u].rating = 1216 /\ users_db[u].wins = 1
          /\ users_db[w].rating = 1184 /\ users_db[w].losses = 1

\* C26: a PlaceNumber or an EraseNumber that finds its room Waiting or
\* Ended changes no room (no overlay, no shared board, no ownership record)
\* and returns to the dispatch loop.
C26_OnlyWhilePlaying ==
    [][\A s \in Socks :
         LET c == loc[s].code IN
         (/\ PlaceNumberRoom(s) \/ EraseNumberRoom(s)
          /\ c \in DOMAIN rooms
          /\ rooms[c].state \in {"Waiting", "Ended"})
         => /\ rooms' = rooms
            /\ pc'[s] = "loop"]_vars

\* a PlaceNumber sent for an Ended room, by a player whose overlay still
\* has an open cell, has just been refused
C26_Witness ==
    \E s \in Socks, c \in DOMAIN rooms :
        /\ pc[s] = "loop"
        /\ sent = tx_send(s, MsgError("Game is not in progress"))
        /\ sock[s].user \in DOMAIN connections
        /\ connections[sock[s].user].room_code = c
        /\ rooms[c].state = "Ended"
        /\ sock[s].user \in DOMAIN rooms[c].player_boards
        /\ \E rc \in OpenCells : rooms[c].player_boards[sock[s].user][rc] = Empty

\* the positions of the entries of other users that accept the caller's
\* rating: within 200, or within 400 when the entry has waited more than 30
\* seconds
C27_Qualifying(queue, u, rating) ==
    {i \in 1 .. Len(queue) :
        /\ queue[i].user_id # u
        /\ Abs(rating - queue[i].rating) <=
              (IF now - queue[i].joined_at > 30 THEN 400 ELSE 200)}

C27_Own(queue, u) == {i \in 1 .. Len(queue) : queue[i].user_id = u}

C27_First(S) == CHOOSE i \in S : \A j \in S : i <= j

\* the caller is paired with entry i of the bucket
C27_Paired(s, key, i) ==
    /\ matchmaking'[key] = RemoveAt(matchmaking[key], i)
    /\ pc'[s] = "q_insert"
    /\ loc'[s].opp = matchmaking[key][i].user_id
    /\ sent' = <<>>

\* the caller is appended to the bucket and told to wait
C27_Queued(s, key) ==
    /\ matchmaking'[key] =
          Append(matchmaking[key],
                 [user_id |-> sock[s].user, rating |-> sock[s].rating,
                  joined_at |-> now])
    /\ pc'[s] = "loop"
    /\ sent' = tx_send(s, WaitingForOpponent)

\* C27 as stated: QuickMatch pairs the caller with the earliest entry that
\* accepts the caller's rating, whatever entries follow it, and when no
\* entry does, appends the caller to the bucket and sends
\* WaitingForOpponent.
C27_PairsEarliestOrQueues ==
    [][\A s \in Socks, mode \in Modes, difficulty \in Difficulties :
         QuickMatch(s, mode, difficulty) =>
         LET key == queue_key(mode, difficulty)
             Q == C27_Qualifying(matchmaking[key], sock[s].user,
                                 sock[s].rating)
         IN  /\ \A k \in DOMAIN matchmaking \ {key} :
                   matchmaking'[k] = matchmaking[k]
             /\ IF Q # {} THEN C27_Paired(s, key, C27_First(Q))
                ELSE C27_Queued(s, key)]_vars

\* C27, amended: the scan stops at the first entry that either is the
\* caller's own or accepts the caller's rating.  When that entry is the
\* caller's own, the call changes nothing and sends nothing; when it is
\* another user's, the caller is paired with it, whatever entries follow;
\* when there is no such entry, the caller is appended to the bucket and is
\* sent WaitingForOpponent.
C27_FirstHitDecides ==
    [][\A s \in Socks, mode \in Modes, difficulty \in Difficulties :
         QuickMatch(s, mode, difficulty) =>
         LET key == queue_key(mode, difficulty)
             Q == C27_Qualifying(matchmaking[key], sock[s].user,
                                 sock[s].rating)
             O == C27_Own(matchmaking[key], sock[s].user)
         IN  /\ \A k \in DOMAIN matchmaking \ {key} :
                   matchmaking'[k] = matchmaking[k]
             /\ IF O # {} /\ (Q = {} \/ C27_First(O) < C27_First(Q))
                THEN /\ matchmaking' = matchmaking
                     /\ pc'[s] = "loop"
                     /\ sent' = <<>>
                ELSE IF Q # {} THEN C27_Paired(s, key, C27_First(Q))
                ELSE C27_Queued(s, key)]_vars

\* the caller has been paired with the head of a bucket whose remaining
\* entry is closer to the caller's rating
C27_Witness ==
    \E s \in Socks :
        /\ pc[s] = "q_insert"
        /\ \E key \in DOMAIN matchmaking :
              /\ Len(matchmaking[key]) = 1
              /\ matchmaking[key][1].user_id \notin {sock[s].user, loc[s].opp}
              /\ Abs(sock[s].rating - matchmaking[key][1].rating)
                    < Abs(sock[s].rating - loc[s].opp_rating)

\* C28: when the handler of a QuickMatch pairing sends MatchStarted, both
\* paired users have a ConnectionHandle and both handles carry the code of
\* the room of the pair; the association step before it has set the code
\* on both.
C28_BothAssociatedFirst ==
    [][\A s \in Socks :
         LET pair == {sock[s].user, loc[s].opp} IN
         /\ QuickMatchAssoc(s)
            => \A u \in pair :
                  /\ u \in DOMAIN connections'
                  /\ connections'[u].room_code = loc[s].code
         /\ QuickMatchStart(s)
            => /\ \A u \in pair :
                     /\ u \in DOMAIN connections
                     /\ connections[u].room_code = loc[s].code
               /\ Len(sent') = 2]_vars

\* C29: a move that fails validation is answered with one MoveRejected
\* that carries a reason, and changes no room, last_activity included: a
\* PlaceNumber out of range, a PlaceNumber on a given cell or on a claimed
\* cell of a Shared room, an EraseNumber on a cell of a Shared room that the
\* caller does not own.
C29_Rejected(s) ==
    /\ Len(sent') = 1
    /\ sent'[1].to = s
    /\ sent'[1].msg.type = "MoveRejected"
    /\ sent'[1].msg.row = loc[s].row /\ sent'[1].msg.col = loc[s].col
    /\ sent'[1].msg.reason # ""
    /\ rooms' = rooms

C29_InvalidMoveRejected ==
    [][\A s \in Socks :
         LET u == sock[s].user
             c == loc[s].code
             rc == Target(s)
         IN
         /\ \A in \in PlaceInputs :
               (/\ PlaceNumber(s, in[1], in[2], in[3])
                /\ connections[u].room_code # NoCode
                /\ \/ in[1] >= BoardSide \/ in[2] >= BoardSide
                   \/ in[3] < 1 \/ in[3] > MaxValue)
               => /\ Len(sent') = 1
                  /\ sent'[1].msg.type = "MoveRejected"
                  /\ sent'[1].msg.reason # ""
                  /\ rooms' = rooms
         /\ (/\ PlaceNumberRoom(s)
             /\ c \in DOMAIN rooms
             /\ rooms[c].state = "Playing"
             /\ \/ rooms[c].board[rc][1] = "Given"
                \/ /\ rooms[c].mode = "Shared"
                   /\ rc \in DOMAIN rooms[c].cell_ownership)
            => C29_Rejected(s)
         /\ (/\ EraseNumberRoom(s)
             /\ c \in DOMAIN rooms
             /\ rooms[c].state = "Playing"
             /\ rooms[c].mode = "Shared"
             /\ rooms[c].board[rc][1] # "Given"
             /\ ~ (/\ rc \in DOMAIN rooms[c].cell_ownership
                   /\ rooms[c].cell_ownership[rc] = u))
            => C29_Rejected(s)]_vars

\* the rooms the sweeper's thresholds select at the time of its scan
C30_Idle == {c \in DOMAIN rooms : /\ rooms[c].state = "Playing"
                                  /\ now - rooms[c].last_activity > 300}
C30_OldWaiting == {c \in DOMAIN rooms : /\ rooms[c].state = "Waiting"
                                        /\ now - rooms[c].created_at > 600}
C30_OldEnded == {c \in DOMAIN rooms : /\ rooms[c].state = "Ended"
                                      /\ now - rooms[c].last_activity > 120}

C30_Range(seq) == {seq[i] : i \in 1 .. Len(seq)}

\* C30: the scan of a sweep lists for forfeit exactly the Playing rooms
\* idle for more than 5 minutes, each against its player1, and for deletion
\* exactly the Waiting rooms older than 10 minutes and the Ended rooms past
\* their retention, and changes nothing; a deletion removes the listed room
\* and touches no other room and no rating; the forfeit of a listed room
\* that is still Playing ends it with player1 as the loser and player2 as
\* the winner and touches no other room; no other step of the sweeper
\* changes a room.
C30_Sweep ==
    [][/\ \A order \in Orders(DOMAIN rooms) :
            cleanup(order)
            => /\ rooms' = rooms /\ users_db' = users_db
               /\ C30_Range(loc'[Sweeper].to_forfeit) =
                     {<<c, rooms[c].player1_id>> : c \in C30_Idle}
               /\ Len(loc'[Sweeper].to_forfeit) = Cardinality(C30_Idle)
               /\ C30_Range(loc'[Sweeper].to_remove) =
                     C30_OldWaiting \cup C30_OldEnded
               /\ Len(loc'[Sweeper].to_remove) =
                     Cardinality(C30_OldWaiting \cup C30_OldEnded)
       /\ (cleanup_remove /\ loc[Sweeper].to_remove # <<>>)
          => /\ rooms' = Del(rooms, Head(loc[Sweeper].to_remove))
             /\ users_db' = users_db
             /\ connections' = connections
             /\ sent' = <<>>
             /\ hist' = hist
       /\ cleanup_forfeit => rooms' = rooms /\ users_db' = users_db
       /\ forfeit_player(Sweeper)
          => LET c == loc[Sweeper].code IN
             /\ \A d \in DOMAIN rooms \ {c} :
                   d \in DOMAIN rooms' /\ rooms'[d] = rooms[d]
             /\ (c \in DOMAIN rooms /\ rooms[c].state = "Playing")
                => /\ rooms'[c] = [rooms[c] EXCEPT !.state = "Ended"]
                   /\ pc'[Sweeper] = "c_read"
                   /\ loc'[Sweeper].loser = rooms[c].player1_id
                   /\ loc'[Sweeper].winner = rooms[c].player2_id
             /\ (c \in DOMAIN rooms /\ rooms[c].state # "Playing")
                => rooms' = rooms /\ pc'[Sweeper] = "sw_forfeit"
       /\ Conclude(Sweeper) => rooms' = rooms]_vars

\* the sweeper has forfeited an idle room against player1 although player1
\* made the last move and player2 made none, while a Waiting room that met
\* no threshold is still held
C30_Witness ==
    LET c == loc[Sweeper].code IN
    /\ pc[Sweeper] = "c_read"
    /\ c \in DOMAIN rooms
    /\ rooms[c].state = "Ended"
    /\ loc[Sweeper].loser = rooms[c].player1_id
    /\ loc[Sweeper].winner = rooms[c].player2_id
    /\ filled_count(rooms[c].player_boards[rooms[c].player1_id]) > 0
    /\ filled_count(rooms[c].player_boards[rooms[c].player2_id]) = 0
    /\ \E d \in DOMAIN rooms : rooms[d].state = "Waiting"

\* the room of the r-th allocation is held in the given state, or held
C31_In(r, state) ==
    \E c \in DOMAIN rooms : rooms[c].rid = r /\ rooms[c].state = state
C31_Held(r) == \E c \in DOMAIN rooms : rooms[c].rid = r

\* C31: while the sweeper runs and time passes, a Waiting room is
\* eventually joined or deleted, a Playing room that gets no further request
\* eventually leaves Playing, and an Ended room is eventually deleted: every
\* room is in the end gone from the Room Manager.
C31_NoRoomLeaks ==
    \A r \in 1 .. MaxRooms :
        /\ C31_In(r, "Waiting") ~> (C31_In(r, "Playing") \/ ~ C31_Held(r))
        /\ C31_In(r, "Playing") ~> (C31_In(r, "Ended") \/ ~ C31_Held(r))
        /\ C31_In(r, "Ended") ~> ~ C31_Held(r)
        /\ C31_Held(r) ~> [](~ C31_Held(r))

\* every room that was allocated is gone, one of them after the sweeper
\* forfeited it against its player1, who never sent Forfeit
C31_Witness ==
    /\ hist.rid = MaxRooms
    /\ rooms = <<>>
    /\ now > WAITING_TTL
    /\ pc[Sweeper] = "sleep"
    /\ users_db[1].losses = 1
    /\ users_db[2].losses = 0

\* C32: In a Playing Race room every turn of the progress broadcaster sends
\* each player (who has a connection) an OpponentProgress whose filled_count
\* is the number of user-placed cells on the other player's overlay; a
\* broadcaster is only ever spawned for a Race room and its two players,
\* and at its first tick after that room has left Playing or has been removed it stops
\* without sending anything.  Every broadcaster eventually terminates.
C32_Placed(board) == Cardinality({rc \in Cells : board[rc][1] = "UserInput"})

C32_Room(b) ==
    /\ loc[b].code \in DOMAIN rooms
    /\ rooms[loc[b].code].rid = loc[b].rid

C32_Broadcasts ==
    [][\A b \in Broadcasters :
         /\ progress_tick(b) =>
               IF C32_Room(b) /\ rooms[loc[b].code].state = "Playing"
               THEN LET room == rooms[loc[b].code]
                        other(u) == IF u = room.player1_id
                                    THEN room.player2_id
                                    ELSE room.player1_id
                    IN  /\ pc'[b] = "bc_tick"
                        /\ room.mode = "Race"
                        /\ \A u \in {room.player1_id, room.player2_id} :
                              u \in DOMAIN connections =>
                                \E i \in DOMAIN sent' :
                                    /\ sent'[i].user = u
                                    /\ sent'[i].msg = OpponentProgress(
                                           C32_Placed(
                                             room.player_boards[other(u)]))
               ELSE pc'[b] = "none" /\ sent' = <<>>
         /\ (pc[b] = "none" /\ pc'[b] = "bc_tick") =>
               /\ loc'[b].code \in DOMAIN rooms
               /\ rooms[loc'[b].code].rid = loc'[b].rid
               /\ rooms[loc'[b].code].mode = "Race"
               /\ {loc'[b].p1, loc'[b].p2} =
                      {rooms[loc'[b].code].player1_id,
                       rooms[loc'[b].code].player2_id}]_vars

C32_Terminates ==
    \A b \in Broadcasters : (pc[b] = "bc_tick") ~> (pc[b] = "none")

C32_ProgressBroadcaster == C32_Broadcasts /\ C32_Terminates

\* a broadcast in a Race room whose creator has placed one number: the
\* joiner is told 1, the creator 0
C32_Witness ==
    /\ \E b \in Broadcasters : pc[b] = "bc_tick" /\ C32_Room(b)
    /\ \E i, j \in DOMAIN sent :
          /\ sent[i].user = 2 /\ sent[i].msg = OpponentProgress(1)
          /\ sent[j].user = 1 /\ sent[j].msg = OpponentProgress(0)

\* C33: the Rematch requests that follow one ended game create at most one
\* room: no two Playing rooms stem from the same Ended room (here every
\* room other than the Ended room of the initial state stems from it).
C33_Offspring == {c \in DOMAIN rooms : rooms[c].rid # 0}

C33_OneRematchRoom ==
    Cardinality({c \in C33_Offspring : rooms[c].state = "Playing"}) <= 1

\* C34: a room that the sweeper deletes is Waiting or Ended at the moment it
\* is deleted.
C34_DeletedNotPlaying ==
    [][\A c \in DOMAIN rooms :
          (cleanup_remove /\ c \notin DOMAIN rooms')
          => rooms[c].state \in {"Waiting", "Ended"}]_vars

\* C35: the ratings written when a game is concluded leave the loser's
\* persisted rating no higher and the winner's no lower than they were.
C35_LoserNeverGains ==
    [][\A p \in Procs :
          UpdateRatings(p)
          => /\ users_db'[loc[p].loser].rating <= users_db[loc[p].loser].rating
             /\ users_db'[loc[p].winner].rating
                    >= users_db[loc[p].winner].rating]_vars

\* C36: a player seated in a Playing room who has connected again while the
\* grace timer of the closed socket is still asleep is associated with that
\* room: a valid PlaceNumber on the new connection is taken to the room.
C36_Seated(u, c) ==
    /\ c \in DOMAIN rooms
    /\ rooms[c].state = "Playing"
    /\ u \in {rooms[c].player1_id, rooms[c].player2_id}

C36_ReconnectedPlays ==
    [][\A s \in Socks, in \in ReconnectInputs :
          LET u == sock[s].user IN
          (/\ PlaceNumber(s, in[1], in[2], in[3])
           /\ \E old \in Socks \ {s} :
                 /\ sock[old].user = u
                 /\ pc[old] = "closed"
                 /\ pc[GraceOf(old)] = "sleep"
                 /\ now < loc[GraceOf(old)].due
           /\ u \in DOMAIN connections /\ connections[u].sock = s
           /\ C36_Seated(u, "R1"))
          => /\ pc'[s] = "p_room"
             /\ loc'[s].code = "R1"]_vars

\* C37: a socket that closes removes no ConnectionHandle but its own: a
\* handle that a newer connection of the same user has registered stays in
\* the registry.
C37_RemovesOwnHandleOnly ==
    [][\A s \in Socks :
          LET u == sock[s].user IN
          (/\ Unregister(s)
           /\ u \in DOMAIN connections
           /\ connections[u].sock # s)
          => /\ u \in DOMAIN connections'
             /\ connections'[u] = connections[u]]_vars

\* C38: no user is seated, as player1 or player2, in more than one Playing
\* room at a time.
C38_SeatedIn(u) ==
    {c \in DOMAIN rooms : /\ rooms[c].state = "Playing"
                          /\ u \in {rooms[c].player1_id,
                                     rooms[c].player2_id}}

C38_OnePlayingRoomPerUser ==
    \A u \in Users : Cardinality(C38_SeatedIn(u)) <= 1

\* C39: the rating QuickMatch queues a user with, and the rating it shows
\* to the opponent in MatchStarted, is the rating held in the user's
\* ConnectionHandle, which end_game brought up to date.
C39_HandleRatingUsed ==
    [][\A s \in {1, 2} :
          LET u == sock[s].user IN
          (u \in DOMAIN connections /\ connections[u].sock = s) =>
            /\ \A mode \in Modes :
                  LET key == queue_key(mode, "Easy") IN
                  (/\ QuickMatch(s, mode, "Easy")
                   /\ Len(matchmaking'[key]) > Len(matchmaking[key]))
                  => matchmaking'[key][Len(matchmaking'[key])].rating
                        = connections[u].rating
            /\ QuickMatchStart(s) =>
                  \A i \in DOMAIN sent' :
                      (sent'[i].user # u /\ sent'[i].msg.type = "MatchStarted")
                      => sent'[i].msg.opponent_rating
                            = connections[u].rating]_vars

\* C40: two users queued in the same bucket whose ratings are at most
\* ELO_RANGE_WIDE apart are, once the earlier entry has waited more than
\* QUEUE_WIDEN_SECS, eventually paired in a room, whether or not either of
\* them sends QuickMatch again.
C40_Queued(u, key) ==
    \E i \in DOMAIN matchmaking[key] : matchmaking[key][i].user_id = u

C40_RatingIn(u, key) ==
    LET i == CHOOSE j \in DOMAIN matchmaking[key] :
                 matchmaking[key][j].user_id = u
    IN  matchmaking[key][i].rating

C40_JoinedAt(u, key) ==
    LET i == CHOOSE j \in DOMAIN matchmaking[key] :
                 matchmaking[key][j].user_id = u
    IN  matchmaking[key][i].joined_at

C40_Paired(u, v) ==
    \E c \in DOMAIN rooms :
        {rooms[c].player1_id, rooms[c].player2_id} = {u, v}

C40_EventuallyPaired ==
    \A u, v \in {1, 2} : \A key \in Modes \X Difficulties :
        (/\ u # v
         /\ C40_Queued(u, key) /\ C40_Queued(v, key)
         /\ Abs(C40_RatingIn(u, key) - C40_RatingIn(v, key))
               <= ELO_RANGE_WIDE
         /\ C40_JoinedAt(u, key) <= C40_JoinedAt(v, key)
         /\ now - C40_JoinedAt(u, key) > QUEUE_WIDEN_SECS)
        ~> C40_Paired(u, v)
====
